---- MODULE Spec2Model ----
(***************************************************************************)
(* The ATS matching engine of the resume analyser: job-description         *)
(* weighting (analyzeJobDescription), resume matching (matchResumeToJD),   *)
(* insights (generateInsights), scoring (calculateATSScore), the checklist *)
(* (buildImprovementChecklist) and the result of performATSAnalysis.       *)
(*                                                                         *)
(* Texts and terms are strings; a character is a string of length one.     *)
(* JavaScript numbers are modelled as exact rationals <<num, den>> with    *)
(* den > 0.  The output of the compromise NLP library (the nouns, terms    *)
(* and phrases it finds in a text) is an input of the model.               *)
(***************************************************************************)
EXTENDS Integers, Sequences, FiniteSets, TLC

VARIABLES
    pc,            \* position in performATSAnalysis
    jdText,        \* argument jdText
    resumeText,    \* argument resumeText
    jdExtracted,   \* extractSkills(jdText) ++ extractPhrases(jdText)
    resumeExtracted, \* extractSkills(resumeText) ++ extractPhrases(resumeText)
    jdAnalysis,    \* result of analyzeJobDescription
    matchResults,  \* the object matchResumeToJD builds and returns
    allResumeTerms, \* local of matchResumeToJD
    termIdx,       \* index of the forEach over jdAnalysis.weightedTerms
    bestMatch,     \* local bestMatch of the current iteration
    finalMatch,    \* local finalMatch of the current iteration
    scoreSteps,    \* the values the local `score` of calculateATSScore takes
    result,        \* the object performATSAnalysis returns
    verbsExtracted, \* doc.verbs().out('array') of the resume
    insights,      \* result of generateInsights
    checklist,     \* result of buildImprovementChecklist
    runs,          \* the locals of each of the analyses running side by side
    tables,        \* the module-level tables of the process
    frame          \* the locals of the one function or handler that is followed line by line

vars == <<pc, jdText, resumeText, jdExtracted, resumeExtracted, jdAnalysis,
          matchResults, allResumeTerms, termIdx, bestMatch, finalMatch,
          scoreSteps, result, verbsExtracted, insights, checklist, runs, tables, frame>>

----------------------------------------------------------------------------
(* Integers and rationals *)

Max(a, b) == IF a >= b THEN a ELSE b
Min(a, b) == IF a <= b THEN a ELSE b

MinOfSet(S) == CHOOSE x \in S : \A y \in S : x <= y
MaxOfSet(S) == CHOOSE x \in S : \A y \in S : x >= y

RECURSIVE Gcd(_, _)
Gcd(a, b) == IF b = 0 THEN a ELSE Gcd(b, a % b)

Abs(a) == IF a < 0 THEN -a ELSE a

\* A rational in lowest terms.
Rat(n, d) ==
    LET g == Gcd(Abs(n), d)
    IN  IF n = 0 THEN <<0, 1>> ELSE <<n \div g, d \div g>>

RAdd(x, y) == Rat(x[1] * y[2] + y[1] * x[2], x[2] * y[2])
RMul(x, y) == Rat(x[1] * y[1], x[2] * y[2])
RLt(x, y) == x[1] * y[2] < y[1] * x[2]
RLeq(x, y) == x[1] * y[2] <= y[1] * x[2]
RGeq(x, y) == RLeq(y, x)
RGt(x, y) == RLt(y, x)
RMax(x, y) == IF RGeq(x, y) THEN x ELSE y
RMin(x, y) == IF RLeq(x, y) THEN x ELSE y
RInt(n) == <<n, 1>>

\* Math.round: the nearest integer, halves rounded up.
MathRound(x) == (2 * x[1] + x[2]) \div (2 * x[2])

----------------------------------------------------------------------------
(* JavaScript string operations *)

\* The characters a..b of s (1-based, inclusive), clamped to the string.
Sub(s, a, b) ==
    IF Max(a, 1) > Min(b, Len(s)) THEN "" ELSE SubSeq(s, Max(a, 1), Min(b, Len(s)))

\* s.charAt(i - 1): "" outside the string.
CharAt(s, i) == Sub(s, i, i)

LowerOf ==
    [c \in {"A", "B", "C", "D", "E", "F", "G", "H", "I", "J", "K", "L", "M",
            "N", "O", "P", "Q", "R", "S", "T", "U", "V", "W", "X", "Y", "Z"} |->
        CASE c = "A" -> "a" [] c = "B" -> "b" [] c = "C" -> "c" [] c = "D" -> "d"
          [] c = "E" -> "e" [] c = "F" -> "f" [] c = "G" -> "g" [] c = "H" -> "h"
          [] c = "I" -> "i" [] c = "J" -> "j" [] c = "K" -> "k" [] c = "L" -> "l"
          [] c = "M" -> "m" [] c = "N" -> "n" [] c = "O" -> "o" [] c = "P" -> "p"
          [] c = "Q" -> "q" [] c = "R" -> "r" [] c = "S" -> "s" [] c = "T" -> "t"
          [] c = "U" -> "u" [] c = "V" -> "v" [] c = "W" -> "w" [] c = "X" -> "x"
          [] c = "Y" -> "y" [] c = "Z" -> "z"]

Digits == {"0", "1", "2", "3", "4", "5", "6", "7", "8", "9"}
LowerLetters == {LowerOf[c] : c \in DOMAIN LowerOf}
Whitespace == {" ", "\n", "\t", "\r"}

\* The three characters of section.detector.js outside ASCII. A string of TLA+ holds
\* ASCII characters only, so each is written as an ASCII character that no input
\* uses otherwise and that no pattern of the source mentions.
BulletGlyph == "@"   \* U+2022, the bullet
EnDash == "~"        \* U+2013
EmDash == "^"        \* U+2014

IsDigit(c) == c \in Digits
IsSpace(c) == c \in Whitespace
\* \w of a regular expression
IsWordChar(c) == c \in DOMAIN LowerOf \/ c \in LowerLetters \/ c \in Digits \/ c = "_"

\* The concatenation of pieces[lo] .. pieces[hi].
RECURSIVE ConcatPieces(_, _, _)
ConcatPieces(pieces, lo, hi) ==
    IF lo > hi THEN ""
    ELSE IF lo = hi THEN pieces[lo]
    ELSE LET mid == (lo + hi) \div 2
         IN  ConcatPieces(pieces, lo, mid) \o ConcatPieces(pieces, mid + 1, hi)

toLowerCase(s) ==
    ConcatPieces([i \in 1..Len(s) |->
                    IF CharAt(s, i) \in DOMAIN LowerOf THEN LowerOf[CharAt(s, i)]
                    ELSE CharAt(s, i)], 1, Len(s))

\* The number of leading characters of s that are in the set.
leadingRun(s, chars) ==
    LET others == {i \in 1..Len(s) : CharAt(s, i) \notin chars}
    IN  IF others = {} THEN Len(s) ELSE MinOfSet(others) - 1

\* The number of trailing characters of s that are in the set.
trailingRun(s, chars) ==
    LET others == {i \in 1..Len(s) : CharAt(s, i) \notin chars}
    IN  IF others = {} THEN Len(s) ELSE Len(s) - MaxOfSet(others)

trimStart(s) == Sub(s, leadingRun(s, Whitespace) + 1, Len(s))
trimEnd(s) == Sub(s, 1, Len(s) - trailingRun(s, Whitespace))
trim(s) == trimEnd(trimStart(s))

\* s.indexOf(sub, from): 0-based, -1 when absent.
indexOfFrom(s, sub, from) ==
    LET hits == {i \in from .. (Len(s) - Len(sub)) : SubSeq(s, i + 1, i + Len(sub)) = sub}
    IN  IF hits = {} THEN -1 ELSE MinOfSet(hits)

indexOf(s, sub) == indexOfFrom(s, sub, 0)
includes(s, sub) == indexOf(s, sub) # -1
startsWith(s, p) == Len(p) <= Len(s) /\ SubSeq(s, 1, Len(p)) = p
endsWith(s, p) == Len(p) <= Len(s) /\ SubSeq(s, Len(s) - Len(p) + 1, Len(s)) = p

\* s.substring(a, b): 0-based, b exclusive.
substring(s, a, b) == Sub(s, a + 1, b)

\* s.split(/[delims]/): the pieces between single delimiter characters.
split(s, delims) ==
    LET at == {i \in 1..Len(s) : CharAt(s, i) \in delims}
        n == Cardinality(at)
        pos == [k \in 1..n |-> CHOOSE p \in at : Cardinality({q \in at : q < p}) = k - 1]
    IN  [k \in 1..(n + 1) |->
            Sub(s, IF k = 1 THEN 1 ELSE pos[k - 1] + 1,
                   IF k = n + 1 THEN Len(s) ELSE pos[k] - 1)]

\* arr.join(sep)
RECURSIVE join(_, _)
join(arr, sep) ==
    IF arr = <<>> THEN ""
    ELSE IF Len(arr) = 1 THEN arr[1]
    ELSE arr[1] \o sep \o join(Tail(arr), sep)

SeqToSet(arr) == {arr[i] : i \in 1..Len(arr)}

\* Array.from(new Set(arr)): first occurrences, in order.
RECURSIVE dedup(_)
dedup(arr) ==
    IF arr = <<>> THEN <<>>
    ELSE LET init == SubSeq(arr, 1, Len(arr) - 1)
             last == arr[Len(arr)]
         IN  IF last \in SeqToSet(init) THEN dedup(init) ELSE Append(dedup(init), last)

----------------------------------------------------------------------------
(* nlp.utils: semantic normalization and plain fuzzy matching *)

\* The entries of the object literal skillNormalizations, in source order.
skillNormalizations == <<
    <<"reactjs", "react">>, <<"react.js", "react">>, <<"react native", "react">>,
    <<"nodejs", "node.js">>, <<"node", "node.js">>, <<"vuejs", "vue">>,
    <<"vue.js", "vue">>, <<"angularjs", "angular">>, <<"angular.js", "angular">>,
    <<"angular 2", "angular">>, <<"angular 4", "angular">>, <<"nextjs", "next.js">>,
    <<"next", "next.js">>, <<"nuxtjs", "nuxt.js">>, <<"nuxt", "nuxt.js">>,
    <<"express", "express.js">>, <<"expressjs", "express.js">>, <<"jquery", "jquery">>,
    <<"js", "javascript">>, <<"javascript", "javascript">>, <<"es6", "javascript">>,
    <<"ecmascript", "javascript">>, <<"ts", "typescript">>, <<"typescript", "typescript">>,
    <<"py", "python">>, <<"python", "python">>, <<"python2", "python">>,
    <<"python3", "python">>, <<"django", "django">>, <<"flask", "flask">>,
    <<"fastapi", "fastapi">>, <<"postgres", "postgresql">>, <<"postgresql", "postgresql">>,
    <<"postgre", "postgresql">>, <<"psql", "postgresql">>, <<"mongo", "mongodb">>,
    <<"mongodb", "mongodb">>, <<"mysql", "mysql">>, <<"mariadb", "mysql">>,
    <<"mssql", "sql server">>, <<"sql server", "sql server">>, <<"oracle", "oracle">>,
    <<"redis", "redis">>, <<"elasticsearch", "elasticsearch">>, <<"cassandra", "cassandra">>,
    <<"dynamodb", "dynamodb">>, <<"nosql", "nosql">>, <<"sql", "sql">>,
    <<"aws", "amazon web services">>, <<"amazon web services", "aws">>, <<"ec2", "aws">>,
    <<"lambda", "aws lambda">>, <<"s3", "aws s3">>, <<"gcp", "google cloud platform">>,
    <<"google cloud", "google cloud platform">>, <<"google cloud platform", "gcp">>, <<"azure", "microsoft azure">>,
    <<"microsoft azure", "azure">>, <<"k8s", "kubernetes">>, <<"kubernetes", "kubernetes">>,
    <<"docker", "docker">>, <<"ci/cd", "continuous integration">>, <<"cicd", "continuous integration">>,
    <<"continuous integration", "ci/cd">>, <<"continuous deployment", "ci/cd">>, <<"devops", "development operations">>,
    <<"jenkins", "jenkins">>, <<"gitlab", "gitlab">>, <<"github", "github">>,
    <<"git", "git">>, <<"bitbucket", "bitbucket">>, <<"terraform", "terraform">>,
    <<"ansible", "ansible">>, <<"puppet", "puppet">>, <<"chef", "chef">>,
    <<"html", "html5">>, <<"html5", "html">>, <<"css", "css3">>,
    <<"css3", "css">>, <<"sass", "scss">>, <<"scss", "sass">>,
    <<"less", "less">>, <<"bootstrap", "bootstrap">>, <<"tailwind", "tailwind css">>,
    <<"tailwindcss", "tailwind css">>, <<"material ui", "material-ui">>, <<"mui", "material-ui">>,
    <<"api", "apis">>, <<"apis", "api">>, <<"rest", "restful">>,
    <<"restful", "rest api">>, <<"rest api", "restful">>, <<"graphql", "graphql">>,
    <<"grpc", "grpc">>, <<"websocket", "websockets">>, <<"websockets", "websocket">>,
    <<"ml", "machine learning">>, <<"machine learning", "ml">>, <<"ai", "artificial intelligence">>,
    <<"artificial intelligence", "ai">>, <<"deep learning", "deep learning">>, <<"dl", "deep learning">>,
    <<"nlp", "natural language processing">>, <<"natural language processing", "nlp">>, <<"tensorflow", "tensorflow">>,
    <<"pytorch", "pytorch">>, <<"keras", "keras">>, <<"scikit-learn", "scikit-learn">>,
    <<"sklearn", "scikit-learn">>, <<"ios", "ios">>, <<"android", "android">>,
    <<"react native", "react native">>, <<"flutter", "flutter">>, <<"swift", "swift">>,
    <<"kotlin", "kotlin">>, <<"objective-c", "objective-c">>, <<"objective c", "objective-c">>,
    <<"jest", "jest">>, <<"mocha", "mocha">>, <<"chai", "chai">>,
    <<"junit", "junit">>, <<"pytest", "pytest">>, <<"selenium", "selenium">>,
    <<"cypress", "cypress">>, <<"testing", "testing">>, <<"unit testing", "testing">>,
    <<"integration testing", "testing">>, <<"e2e", "end-to-end testing">>, <<"end to end testing", "e2e">>,
    <<"agile", "agile">>, <<"scrum", "scrum">>, <<"kanban", "kanban">>,
    <<"waterfall", "waterfall">>, <<"tdd", "test driven development">>, <<"test driven development", "tdd">>,
    <<"bdd", "behavior driven development">>, <<"java", "java">>, <<"c#", "c sharp">>,
    <<"c sharp", "c#">>, <<"c++", "c++">>, <<"c", "c">>,
    <<"go", "golang">>, <<"golang", "go">>, <<"rust", "rust">>,
    <<"ruby", "ruby">>, <<"php", "php">>, <<"r", "r">>,
    <<"scala", "scala">>, <<"elixir", "elixir">>, <<"wordpress", "wordpress">>,
    <<"wp", "wordpress">>, <<"drupal", "drupal">>, <<"shopify", "shopify">>,
    <<"magento", "magento">>, <<"woocommerce", "woocommerce">>, <<"salesforce", "salesforce">>,
    <<"sap", "sap">>, <<"oracle", "oracle">>, <<"jira", "jira">>,
    <<"confluence", "confluence">>, <<"slack", "slack">>, <<"teams", "microsoft teams">>,
    <<"microsoft teams", "teams">>, <<"tableau", "tableau">>, <<"power bi", "power bi">>,
    <<"powerbi", "power bi">>, <<"looker", "looker">>, <<"excel", "excel">>,
    <<"spreadsheets", "excel">>, <<"google sheets", "google sheets">>, <<"spark", "apache spark">>,
    <<"apache spark", "spark">>, <<"hadoop", "hadoop">>, <<"kafka", "apache kafka">>,
    <<"apache kafka", "kafka">>, <<"airflow", "airflow">>, <<"version control", "git">>,
    <<"source control", "git">>, <<"svn", "subversion">>, <<"subversion", "svn">>
>>

\* obj[key] of an object literal: the last entry with that key, else undefined.
Undefined == "undefined"

Lookup(table, key) ==
    LET hits == {i \in 1..Len(table) : table[i][1] = key}
    IN  IF hits = {} THEN Undefined ELSE table[MaxOfSet(hits)][2]

\* skillNormalizations[lower] || lower
normalizeSkill(skill) ==
    LET orElse(found, lower) == IF found = Undefined THEN lower ELSE found
        normalized(lower) == orElse(Lookup(skillNormalizations, lower), lower)
    IN  normalized(trim(toLowerCase(skill)))

removeWhitespace(s) ==
    ConcatPieces([i \in 1..Len(s) |-> IF IsSpace(CharAt(s, i)) THEN "" ELSE CharAt(s, i)],
                 1, Len(s))

Bigrams(s) == [i \in 1..(Len(s) - 1) |-> SubSeq(s, i, i + 1)]

\* The second loop of compareTwoStrings: every bigram of `second` that is still
\* available in the counts of `first` uses one up and counts once.
RECURSIVE intersectionSize(_, _, _)
intersectionSize(counts, second, i) ==
    IF i > Len(second) THEN 0
    ELSE LET b == second[i]
         IN  IF b \in DOMAIN counts /\ counts[b] > 0
             THEN 1 + intersectionSize([counts EXCEPT ![b] = @ - 1], second, i + 1)
             ELSE intersectionSize(counts, second, i + 1)

\* stringSimilarity.compareTwoStrings: the Dice coefficient over bigrams.
compareTwoStrings(a, b) ==
    LET counts(fb) == [g \in SeqToSet(fb) |-> Cardinality({i \in 1..Len(fb) : fb[i] = g})]
        dice(first, second) ==
            IF first = second THEN RInt(1)
            ELSE IF Len(first) < 2 \/ Len(second) < 2 THEN RInt(0)
            ELSE Rat(2 * intersectionSize(counts(Bigrams(first)), Bigrams(second), 1),
                     Len(first) + Len(second) - 2)
    IN  dice(removeWhitespace(a), removeWhitespace(b))

calculateSimilarity(skill1, skill2) ==
    LET compare(normalized1, normalized2) ==
            IF normalized1 = normalized2 THEN RInt(1)
            ELSE compareTwoStrings(normalized1, normalized2)
    IN  compare(normalizeSkill(skill1), normalizeSkill(skill2))

\* matches.reduce((prev, current) => current.score > prev.score ? current : prev)
RECURSIVE reduceBest(_, _, _)
reduceBest(matches, prev, i) ==
    IF i > Len(matches) THEN prev
    ELSE reduceBest(matches,
                    IF RGt(matches[i].score, prev.score) THEN matches[i] ELSE prev,
                    i + 1)

Null == "null"

\* findBestMatch without its guard for an empty list: a best score with no skill.
findBestMatchUnguarded(targetSkill, skillsList) ==
    LET return(best) == [match |-> best.skill, score |-> best.score]
        reduce(matches) == return(reduceBest(matches, matches[1], 2))
    IN  IF Len(skillsList) = 0 THEN [match |-> Null, score |-> RInt(1)]
        ELSE reduce([i \in 1..Len(skillsList) |->
                        [skill |-> skillsList[i],
                         score |-> calculateSimilarity(targetSkill, skillsList[i])]])

findBestMatch(targetSkill, skillsList) ==
    LET return(best) == [match |-> best.skill, score |-> best.score]
        reduce(matches) == return(reduceBest(matches, matches[1], 2))
    IN  IF Len(skillsList) = 0 THEN [match |-> Null, score |-> RInt(0)]
        ELSE reduce([i \in 1..Len(skillsList) |->
                        [skill |-> skillsList[i],
                         score |-> calculateSimilarity(targetSkill, skillsList[i])]])

----------------------------------------------------------------------------
(* spellcheck.utils: typo-tolerant matching *)

\* One row of the edit-distance matrix from the row above it.
RECURSIVE levRow(_, _, _, _, _)
levRow(prev, str1, str2, i, row) ==
    LET j == Len(row)
    IN  IF j > Len(str2) THEN row
        ELSE LET cost == IF CharAt(str1, i) = CharAt(str2, j) THEN 0 ELSE 1
                 cell == Min(Min(prev[j + 1] + 1, row[j] + 1), prev[j] + cost)
             IN  levRow(prev, str1, str2, i, Append(row, cell))

\* The rows below row i - 1 are complete (each has Len(str2) + 1 cells) before row i
\* is started, as in the nested for loops.
RECURSIVE levRows(_, _, _, _)
levRows(prev, str1, str2, i) ==
    IF i > Len(str1) \/ Len(prev) # Len(str2) + 1 THEN prev
    ELSE levRows(levRow(prev, str1, str2, i, <<i>>), str1, str2, i + 1)

\* Rows are 1-based sequences: row[j + 1] is matrix[i][j].
levenshteinDistance(str1, str2) ==
    levRows([j \in 1..(Len(str2) + 1) |-> j - 1], str1, str2, 1)[Len(str2) + 1]

areSkillsSimilar(skill1, skill2, threshold) ==
    LET similar(s1, s2) ==
            LET maxLen == Max(Len(s1), Len(s2))
                allowedDistance == IF maxLen <= 5 THEN 1 ELSE threshold
            IN  s1 = s2 \/ levenshteinDistance(s1, s2) <= allowedDistance
    IN  similar(trim(toLowerCase(skill1)), trim(toLowerCase(skill2)))

\* The entries of the object literal commonTechTypos, in source order.
commonTechTypos == <<
    <<"pyhton", "python">>, <<"pytohn", "python">>, <<"javasript", "javascript">>,
    <<"javascirpt", "javascript">>, <<"javascrpit", "javascript">>, <<"typescipt", "typescript">>,
    <<"typescirpt", "typescript">>, <<"kuberntes", "kubernetes">>, <<"kuberentes", "kubernetes">>,
    <<"postgre", "postgresql">>, <<"postgress", "postgresql">>, <<"mongod", "mongodb">>,
    <<"mongobd", "mongodb">>, <<"reactjs", "react">>, <<"react.js", "react">>,
    <<"nodejs", "node.js">>, <<"node.js", "node">>, <<"angularjs", "angular">>,
    <<"vuejs", "vue">>, <<"vue.js", "vue">>, <<"expresjs", "express">>,
    <<"expres", "express">>, <<"redis", "redis">>, <<"rediss", "redis">>,
    <<"docker", "docker">>, <<"dokcer", "docker">>, <<"git", "git">>,
    <<"github", "github">>, <<"gitlab", "gitlab">>, <<"jira", "jira">>,
    <<"aws", "aws">>, <<"gcp", "gcp">>, <<"azure", "azure">>,
    <<"asure", "azure">>
>>

autocorrectSkill(skill) ==
    LET firstSimilar(similar) ==
            IF similar # {} THEN commonTechTypos[MinOfSet(similar)][2] ELSE skill
        correct(lower, exact) ==
            IF exact # Undefined THEN exact
            ELSE firstSimilar({i \in 1..Len(commonTechTypos) :
                                  areSkillsSimilar(lower, commonTechTypos[i][1], 1)})
        lookup(lower) == correct(lower, Lookup(commonTechTypos, lower))
    IN  lookup(trim(toLowerCase(skill)))

\* The score without the edit distance.
TypoScoreDiceOnly(skillToMatch, skill) ==
    LET score(s) ==
            IF skillToMatch = s THEN RInt(1) ELSE compareTwoStrings(skillToMatch, s)
    IN  score(toLowerCase(skill))

TypoScore(skillToMatch, skill) ==
    LET levenSimilarity(distance, maxLen) == RAdd(RInt(1), Rat(-distance, maxLen))
        score(s) ==
            IF skillToMatch = s THEN RInt(1)
            ELSE RMax(compareTwoStrings(skillToMatch, s),
                      levenSimilarity(levenshteinDistance(skillToMatch, s),
                                      Max(Len(skillToMatch), Len(s))))
    IN  score(toLowerCase(skill))

findBestMatchWithTypoTolerance(targetSkill, skillsList, threshold) ==
    LET return(best, corrected) ==
            [match |-> IF RGeq(best.score, threshold) THEN best.skill ELSE Null,
             score |-> best.score,
             corrected |-> corrected # targetSkill]
        reduce(matches, corrected) == return(reduceBest(matches, matches[1], 2), corrected)
        scoreAll(skillToMatch, corrected) ==
            reduce([i \in 1..Len(skillsList) |->
                       [skill |-> skillsList[i],
                        score |-> TypoScore(skillToMatch, skillsList[i])]], corrected)
        search(corrected) == scoreAll(toLowerCase(corrected), corrected)
    IN  IF Len(skillsList) = 0 THEN [match |-> Null, score |-> RInt(0), corrected |-> FALSE]
        ELSE search(autocorrectSkill(targetSkill))

----------------------------------------------------------------------------
(* nlp.utils: text preprocessing, term frequency, generic words *)

\* s.replace(/\s+/g, ' '): every run of whitespace becomes one space.
collapseWhitespace(s) ==
    ConcatPieces([i \in 1..Len(s) |->
                    IF ~IsSpace(CharAt(s, i)) THEN CharAt(s, i)
                    ELSE IF IsSpace(CharAt(s, i - 1)) THEN "" ELSE " "], 1, Len(s))

\* [\w\s\.\+\#\-\/\(\)]
IsKeptChar(c) == IsWordChar(c) \/ IsSpace(c) \/ c \in {".", "+", "#", "-", "/", "(", ")"}

\* s.replace(/[^\w\s\.\+\#\-\/\(\)]/g, ' ')
replaceOtherChars(s) ==
    ConcatPieces([i \in 1..Len(s) |-> IF IsKeptChar(CharAt(s, i)) THEN CharAt(s, i) ELSE " "],
                 1, Len(s))

\* The fourth replace, /\b\s+/g by ' ', rewrites single spaces by single spaces
\* once the third has run.
preprocessText(text) ==
    trim(collapseWhitespace(replaceOtherChars(collapseWhitespace(text))))

\* text.split(/\s+/)
splitWhitespace(s) == split(collapseWhitespace(s), {" "})

\* calculateTFIDF(text, [text])[key] || 0.1
tfidfOrDefault(text, key) ==
    LET tf(count, totalWords) ==
            IF Len(key) > 2 /\ count > 0 THEN Rat(count, totalWords) ELSE Rat(1, 10)
        ofWords(words) ==
            tf(Cardinality({i \in 1..Len(words) : words[i] = key}), Len(words))
    IN  ofWords(splitWhitespace(preprocessText(text)))

isGenericWord(word) ==
    toLowerCase(word) \in
      {"description", "experience", "skills", "education", "work", "job",
       "company", "team", "role", "position", "responsibilities", "requirements",
       "qualifications", "candidate", "professional", "summary", "objective",
       "things", "stuff", "various", "multiple", "several", "many", "some",
       "good", "great", "excellent", "strong", "ability", "knowledge",
       "years", "required", "preferred", "must", "should", "will", "can",
       "seeking", "looking", "join", "growing", "field", "related", "degree"}

isStopWord(term) ==
    trim(toLowerCase(term)) \in
      {"the", "and", "for", "are", "but", "not", "you", "all", "can",
       "with", "from", "have", "this", "that", "will", "your", "about",
       "which", "their", "said", "each", "she", "how", "been",
       "who", "called", "its", "would", "make", "like", "him", "into",
       "time", "has", "look", "two", "more", "write", "see", "number",
       "way", "could", "people", "experience", "years", "work", "working",
       "build", "building", "develop", "developing", "create", "creating",
       "implement", "implementing", "collaborate", "collaborating", "participate",
       "participating", "integrate", "integrating", "optimize", "optimizing",
       "troubleshoot", "troubleshooting", "knowledge", "proficiency", "expertise",
       "familiarity", "understanding", "solid", "strong", "good", "excellent"}

----------------------------------------------------------------------------
(* section.detector *)

\* A JavaScript object with string keys: the keys in insertion order and their values.
EmptyObj == [keys |-> <<>>, val |-> <<>>]
HasOwn(obj, k) == \E i \in 1..Len(obj.keys) : obj.keys[i] = k
Get(obj, k) == obj.val[CHOOSE i \in 1..Len(obj.keys) : obj.keys[i] = k]
SetKey(obj, k, v) ==
    IF HasOwn(obj, k)
    THEN [obj EXCEPT !.val[CHOOSE i \in 1..Len(obj.keys) : obj.keys[i] = k] = v]
    ELSE [keys |-> Append(obj.keys, k), val |-> Append(obj.val, v)]
\* obj[k] used as a condition: defined and a non-empty string.
Truthy(obj, k) == HasOwn(obj, k) /\ Get(obj, k) # ""

SECTION_HEADERS == <<
    <<"skills", {"skills", "technical skills", "core competencies", "technologies",
                 "expertise", "proficiencies"}>>,
    <<"experience", {"experience", "work experience", "professional experience",
                     "employment history", "work history", "career"}>>,
    <<"education", {"education", "academic background", "qualifications", "degrees"}>>,
    <<"projects", {"projects", "personal projects", "key projects", "portfolio"}>>,
    <<"certifications", {"certifications", "certificates", "licenses", "credentials"}>>,
    <<"summary", {"summary", "professional summary", "objective", "profile", "about"}>>,
    <<"achievements", {"achievements", "awards", "honors", "accomplishments"}>> >>

detectSectionHeader(line) ==
    LET first(headers, exact, partial) ==
            IF exact # {} THEN headers[MinOfSet(exact)][1]
            ELSE IF partial # {} THEN headers[MinOfSet(partial)][1]
            ELSE Null
        scan(headers, lower) ==
            first(headers,
                  {i \in 1..Len(headers) :
                      \E header \in headers[i][2] :
                          lower = header \/ startsWith(lower, header \o ":")},
                  {i \in 1..Len(headers) :
                      /\ \E header \in headers[i][2] : includes(lower, header)
                      /\ Len(line) < 50 /\ ~includes(line, ".") /\ ~includes(line, ",")})
    IN  scan(SECTION_HEADERS, trim(toLowerCase(line)))

\* The forEach of detectSections from line i on, then the final save.
RECURSIVE detectLines(_, _, _, _, _)
detectLines(lines, i, sections, currentSection, currentContent) ==
    LET step(saved, trimmed, detectedSection) ==
            IF i > Len(lines) THEN saved
            ELSE IF trimmed = ""
            THEN detectLines(lines, i + 1, sections, currentSection, currentContent)
            ELSE IF detectedSection # Null
            THEN detectLines(lines, i + 1, saved, detectedSection, <<>>)
            ELSE detectLines(lines, i + 1, sections, currentSection,
                             Append(currentContent, trimmed))
        line(saved, trimmed) == step(saved, trimmed, detectSectionHeader(trimmed))
    IN  line(IF Len(currentContent) > 0
             THEN SetKey(sections, currentSection, join(currentContent, "\n"))
             ELSE sections,
             IF i > Len(lines) THEN "" ELSE trim(lines[i]))

detectSections(text) ==
    IF text = "" THEN EmptyObj
    ELSE detectLines(split(text, {"\n"}), 1, EmptyObj, "header", <<>>)

\* /\d{4}/
HasFourDigits(line) ==
    \E i \in 1..(Len(line) - 3) : \A k \in 0..3 : IsDigit(CharAt(line, i + k))

\* A title line recognised by its year or its job word alone.
isJobTitleLineNoSeparator(line) ==
    \/ HasFourDigits(line)
    \/ \E word \in {"engineer", "developer", "manager", "analyst", "designer",
                    "consultant", "specialist", "lead", "senior", "junior"} :
            includes(toLowerCase(line), word)

isJobTitleLine(line) ==
    \/ HasFourDigits(line)
    \/ \E word \in {"engineer", "developer", "manager", "analyst", "designer",
                    "consultant", "specialist", "lead", "senior", "junior"} :
            includes(toLowerCase(line), word)
    \/ includes(line, "|") \/ includes(line, EnDash) \/ includes(line, EmDash)

\* /^[\s]*[(bullet)\-\*\+]/ or /^[\s]*\d+[\.\)]/
isBulletPoint(line) ==
    LET numbered(rest, digits) == digits > 0 /\ CharAt(rest, digits + 1) \in {".", ")"}
        bullet(rest) ==
            \/ CharAt(rest, 1) \in {BulletGlyph, "-", "*", "+"}
            \/ numbered(rest, leadingRun(rest, Digits))
    IN  bullet(trimStart(line))

\* bullet.replace(/^[\s(bullet)\-\*\+\d\.\)]+/, '').trim()
cleanBullet(bullet) ==
    LET n == leadingRun(bullet, Whitespace \cup Digits
                                   \cup {BulletGlyph, "-", "*", "+", ".", ")"})
    IN  trim(Sub(bullet, n + 1, Len(bullet)))

\* currentJob is <<>> for null, else <<job>>.
RECURSIVE parseJobLines(_, _, _, _)
parseJobLines(lines, i, jobs, currentJob) ==
    LET step(trimmed) ==
            IF isJobTitleLine(trimmed)
            THEN parseJobLines(lines, i + 1, jobs \o currentJob,
                               <<[title |-> trimmed, bullets |-> <<>>]>>)
            ELSE IF currentJob # <<>> /\ isBulletPoint(trimmed)
            THEN parseJobLines(lines, i + 1, jobs,
                               <<[currentJob[1] EXCEPT
                                    !.bullets = Append(@, cleanBullet(trimmed))]>>)
            ELSE parseJobLines(lines, i + 1, jobs, currentJob)
    IN  IF i > Len(lines) THEN jobs \o currentJob ELSE step(trim(lines[i]))

NonBlank(l) == trim(l) # ""

parseExperienceSection(experienceText) ==
    IF experienceText = "" THEN <<>>
    ELSE parseJobLines(SelectSeq(split(experienceText, {"\n"}), NonBlank), 1, <<>>, <<>>)

\* trimmed.replace(/^[^:]+:\s*/, '')
stripLabel(trimmed) ==
    LET colon == indexOf(trimmed, ":")
    IN  IF colon >= 1 THEN trimStart(Sub(trimmed, colon + 2, Len(trimmed))) ELSE trimmed

RECURSIVE parseSkillParts(_, _)
parseSkillParts(parts, i) ==
    LET keep(trimmed, cleaned) ==
            IF Len(trimmed) > 1 /\ Len(trimmed) < 50 /\ Len(cleaned) > 1
            THEN <<toLowerCase(cleaned)>> \o parseSkillParts(parts, i + 1)
            ELSE parseSkillParts(parts, i + 1)
        part(trimmed) == keep(trimmed, stripLabel(trimmed))
    IN  IF i > Len(parts) THEN <<>> ELSE part(trim(parts[i]))

parseSkillsSection(skillsText) ==
    IF skillsText = "" THEN <<>>
    ELSE dedup(parseSkillParts(split(skillsText, {",", ";", "|", "\n", "-", "*"}), 1))

\* Whether one of the words follows position i (0 or more spaces skipped).
FollowedByWord(text, i, words) ==
    LET rest == trimStart(Sub(text, i, Len(text)))
    IN  \E w \in words : startsWith(rest, w)

\* Only the dollar amounts counted as metrics.
hasQuantifiableMetricsDollarsOnly(experienceText) ==
    /\ experienceText # ""
    /\ \E i \in 1..Len(experienceText) :
          /\ CharAt(experienceText, i) = "$"
          /\ (IsDigit(CharAt(experienceText, i + 1)) \/ CharAt(experienceText, i + 1) = ",")

hasQuantifiableMetrics(experienceText) ==
    LET n == Len(experienceText)
        D(i) == IsDigit(CharAt(experienceText, i))
        Counted(lower, i) == FollowedByWord(lower, i, {"user", "customer", "client", "project"})
        test(lower) ==
        /\ experienceText # ""
        /\ \/ \E i \in 1..n : D(i) /\ CharAt(experienceText, i + 1) = "%"
           \/ \E i \in 1..n : CharAt(experienceText, i) = "$"
                                /\ (D(i + 1) \/ CharAt(experienceText, i + 1) = ",")
           \/ \E i \in 1..n : D(i) /\
                Counted(lower, IF CharAt(lower, i + 1) = "+" THEN i + 2 ELSE i + 1)
           \/ \E i \in 1..n : D(i) /\ CharAt(experienceText, i + 1) = "x"
           \/ \E i \in 1..n : /\ Sub(lower, i, i + 1) = "by"
                              /\ IsSpace(CharAt(lower, i + 2))
                              /\ IsDigit(Head(trimStart(Sub(lower, i + 2, n)) \o "!"))
           \/ \E i \in 1..n : D(i) /\
                FollowedByWord(lower, i + 1, {"million", "thousand", "billion"})
    IN  test(toLowerCase(experienceText))

----------------------------------------------------------------------------
(* ats.engine (api.js): job-description analysis *)

\* /^[-*\d+\.:]/ and /[.:,;!]$/ and the twelve noisePatterns
isNoiseTerm(term) ==
    LET noise(cleaned, lower) ==
        \/ Len(term) < 3
        \/ cleaned # term
        \/ Head(cleaned) \in Digits \cup {"-", "*", "+", ".", ":"}
        \/ CharAt(cleaned, Len(cleaned)) \in {".", ":", ",", ";", "!"}
        \/ lower \in {"experience", "building", "developing", "creating", "implementing",
                      "collaborating", "participate", "integrate", "optimize",
                      "troubleshoot", "knowledge", "proficiency", "expertise",
                      "familiarity", "understanding"}
        \/ lower \in {"required", "preferred", "must", "should", "year", "years",
                      "month", "months", "experience", "experiences"}
        \/ lower \in {"responsibilities", "qualifications", "skills", "education",
                      "work", "job", "role", "position"}
        \/ lower \in {"knowledge", "proficiency", "expertise", "familiarity",
                      "understanding", "solid", "strong"}
        \/ lower \in {"experience", "building", "developing", "creating",
                      "implementing", "collaborating"}
        \/ lower \in {"participate", "participating", "integrate", "integrating",
                      "optimize", "optimizing"}
        \/ lower \in {"troubleshoot", "troubleshooting", "collaborate", "collaborating"}
        \/ lower \in {"implement", "implementing", "develop", "developing", "build",
                      "building"}
        \/ \E w \in {"growing team", "our team", "join", "seeking", "looking",
                     "candidate", "ideal"} : includes(lower, w)
        \/ \E w \in {"bachelor", "degree", "field", "related", "computer science"} :
                includes(lower, w)
        \/ \E w \in {"and", "with", "the", "for", "from", "plus", "bonus"} :
                startsWith(lower, w) /\ IsSpace(CharAt(lower, Len(w) + 1))
        \/ lower \in {"party", "third", "high", "best", "technical", "practices",
                      "issues", "performance"}
        \/ lower \in {"stack", "full", "developer", "applications", "services",
                      "practices", "operations"}
        clean(cleaned) == noise(cleaned, toLowerCase(cleaned))
    IN  clean(trim(term))

isQualifierTerm(term) ==
    LET qualifier(cleaned) ==
        \E q \in {"strong proficiency", "strong expertise", "solid understanding",
                  "good knowledge", "excellent skills", "proven experience",
                  "deep understanding", "extensive experience", "broad knowledge",
                  "strong background", "solid experience", "good understanding",
                  "strong knowledge", "proven ability", "demonstrated ability",
                  "strong skills", "good skills", "excellent knowledge",
                  "years of experience", "experience with", "knowledge of",
                  "proficiency in", "expertise in", "familiarity with",
                  "understanding of", "background in", "skills in"} :
            includes(cleaned, q) \/ includes(q, cleaned)
    IN  qualifier(trim(toLowerCase(term)))

requiredIndicators == {"required", "must have", "mandatory", "essential", "must be", "need to"}
preferredIndicators == {"preferred", "nice to have", "bonus", "plus", "desired", "ideal"}

\* The characters inspected before and after a term's first occurrence.
ContextWindow == 100

\* The class the forEach body of categorizeSkillImportance gives one term:
\* "required", "preferred", or "none" when the term is not found in the text.
TermClass(text, term) ==
    LET classOf(termIndex, context) ==
            IF termIndex = -1 THEN "none"
            ELSE IF \E indicator \in requiredIndicators : includes(context, indicator)
                 THEN "required"
            ELSE IF \E indicator \in preferredIndicators : includes(context, indicator)
                 THEN "preferred"
            ELSE "required"
        window(lowerText, termLower, termIndex) ==
            LET contextStart == Max(0, termIndex - ContextWindow)
                contextEnd == Min(Len(lowerText), termIndex + Len(termLower) + ContextWindow)
            IN  classOf(termIndex, substring(lowerText, contextStart, contextEnd))
        find(lowerText, termLower) == window(lowerText, termLower, indexOf(lowerText, termLower))
    IN  find(toLowerCase(text), toLowerCase(term))

categorizeSkillImportance(text, terms) ==
    LET classified(class) ==
            [required |-> {normalizeSkill(terms[i]) :
                              i \in {k \in 1..Len(terms) : class[k] = "required"}},
             preferred |-> {normalizeSkill(terms[i]) :
                              i \in {k \in 1..Len(terms) : class[k] = "preferred"}}]
    IN  classified([k \in 1..Len(terms) |-> TermClass(text, terms[k])])

\* (text.match(new RegExp(escapedTerm, 'gi')) || []).length: the occurrences found
\* left to right without overlap.
RECURSIVE countMatches(_, _, _)
countMatches(lowerText, lowerTerm, from) ==
    LET at == indexOfFrom(lowerText, lowerTerm, from)
    IN  IF at = -1 THEN 0 ELSE 1 + countMatches(lowerText, lowerTerm, at + Len(lowerTerm))

RequiredBoost == <<3, 1>>
PreferredBoost == <<3, 2>>
FrequencyBoost == <<13, 10>>
GenericPenalty == <<3, 10>>

\* weight *= boost, when the condition of the if holds
Boosted(weight, condition, boost) == IF condition THEN RMul(weight, boost) ELSE weight

weighTerm(text, term, classes) ==
    LET weighted(normalized, baseWeight, frequency, generic) ==
            [term |-> normalized,
             originalTerm |-> term,
             weight |-> Boosted(
                            Boosted(
                                Boosted(
                                    Boosted(baseWeight,
                                            normalized \in classes.required, RequiredBoost),
                                    normalized \in classes.preferred, PreferredBoost),
                                frequency > 2, FrequencyBoost),
                            generic, GenericPenalty),
             isRequired |-> normalized \in classes.required,
             isPreferred |-> normalized \in classes.preferred,
             frequency |-> frequency]
    IN  weighted(normalizeSkill(term),
                 tfidfOrDefault(text, toLowerCase(term)),
                 countMatches(toLowerCase(text), toLowerCase(term), 0),
                 isGenericWord(term))

\* The deduplication that keeps the last record of a normalized form.
RECURSIVE removeDuplicatesKeepingLast(_)
removeDuplicatesKeepingLast(terms) ==
    IF terms = <<>> THEN <<>>
    ELSE IF \E i \in 2..Len(terms) : terms[i].term = Head(terms).term
         THEN removeDuplicatesKeepingLast(Tail(terms))
         ELSE <<Head(terms)>> \o removeDuplicatesKeepingLast(Tail(terms))

RECURSIVE removeDuplicatesByNormalized(_)
removeDuplicatesByNormalized(terms) ==
    IF terms = <<>> THEN <<>>
    ELSE LET init == SubSeq(terms, 1, Len(terms) - 1)
             last == terms[Len(terms)]
         IN  IF \E i \in 1..Len(init) : init[i].term = last.term
             THEN removeDuplicatesByNormalized(init)
             ELSE Append(removeDuplicatesByNormalized(init), last)

\* Insert t after every element whose weight is at least its own.
RECURSIVE insertByWeight(_, _)
insertByWeight(sorted, t) ==
    IF sorted = <<>> THEN <<t>>
    ELSE IF RGeq(Head(sorted).weight, t.weight)
         THEN <<Head(sorted)>> \o insertByWeight(Tail(sorted), t)
         ELSE <<t>> \o sorted

\* terms.sort((a, b) => b.weight - a.weight): stable, heaviest first.
RECURSIVE sortByWeight(_)
sortByWeight(terms) ==
    IF terms = <<>> THEN <<>>
    ELSE insertByWeight(sortByWeight(SubSeq(terms, 1, Len(terms) - 1)), terms[Len(terms)])

NotNoise(t) == ~isNoiseTerm(t) /\ ~isQualifierTerm(t)

analyzeJobDescription(text, extracted) ==
    LET weigh(allTerms, classes) ==
            [allTerms |-> allTerms,
             weightedTerms |-> sortByWeight(removeDuplicatesByNormalized(
                 [i \in 1..Len(allTerms) |-> weighTerm(text, allTerms[i], classes)])),
             requiredSkills |-> classes.required,
             preferredSkills |-> classes.preferred]
        categorize(allTerms) == weigh(allTerms, categorizeSkillImportance(text, allTerms))
    IN  categorize(SelectSeq(extracted, NotNoise))

----------------------------------------------------------------------------
(* ats.engine (api.js): resume matching *)

isTermInExperience(term, experienceJobs) ==
    \E j \in 1..Len(experienceJobs) :
        \E b \in 1..Len(experienceJobs[j].bullets) :
            includes(toLowerCase(experienceJobs[j].bullets[b]), toLowerCase(term))

\* The fallback taken only when no section at all was found.
sectionsWithFallbackWhenNone(text) ==
    LET fallback(sections) ==
            IF Len(sections.keys) < 1
            THEN SetKey(SetKey(sections, "experience", text), "skills", text)
            ELSE sections
    IN  fallback(detectSections(text))

\* Lines 242-248: the detected sections, with the whole text standing in for the
\* experience and the skills section when at most one section was found.
sectionsWithFallback(text) ==
    LET fallback(sections) ==
            IF Len(sections.keys) <= 1
            THEN SetKey(SetKey(sections, "experience", text), "skills", text)
            ELSE sections
    IN  fallback(detectSections(text))

LongEnough(t) == t # "" /\ Len(t) > 2

\* Lines 251-255
normalizedResumeTerms(extracted) ==
    SelectSeq([i \in 1..Len(extracted) |-> normalizeSkill(extracted[i])], LongEnough)

EmptyMatches == [strongMatch |-> <<>>, partialMatch |-> <<>>, missing |-> <<>>]
NoMetrics == [hasMetrics |-> FALSE, totalSkills |-> 0, explicitSkills |-> 0]
NoMatch == [match |-> Null, score |-> RInt(0), corrected |-> FALSE]

TypoThreshold == <<7, 10>>
StrongThreshold == <<65, 100>>
PartialThreshold == <<45, 100>>

\* Lines 277-286: the record of a strong match.
strongRecord(jdTerm, best, final, explicitSkills, experienceJobs) ==
    [jdTerm |-> jdTerm.term,
     resumeTerm |-> final.match,
     score |-> final.score,
     weight |-> jdTerm.weight,
     isRequired |-> jdTerm.isRequired,
     inSkillsSection |-> final.match \in SeqToSet(explicitSkills),
     inExperience |-> isTermInExperience(final.match, experienceJobs),
     typoCorrection |-> best.corrected]

\* Lines 289-296: the record of a partial match.
partialRecord(jdTerm, best, final) ==
    [jdTerm |-> jdTerm.term,
     resumeTerm |-> final.match,
     score |-> final.score,
     weight |-> jdTerm.weight,
     isRequired |-> jdTerm.isRequired,
     typoCorrection |-> best.corrected]

\* Lines 299-304: the record of a missing term.
missingRecord(jdTerm) ==
    [term |-> jdTerm.term,
     weight |-> jdTerm.weight,
     isRequired |-> jdTerm.isRequired,
     isPreferred |-> jdTerm.isPreferred]

\* The forEach body with two independent ifs: a strong match is pushed as a partial
\* match too.
classifyMatchTwice(matches, jdTerm, best, final, explicitSkills, experienceJobs) ==
    IF RGeq(final.score, StrongThreshold)
    THEN [matches EXCEPT
            !.strongMatch = Append(@, strongRecord(jdTerm, best, final,
                                                   explicitSkills, experienceJobs)),
            !.partialMatch = Append(@, partialRecord(jdTerm, best, final))]
    ELSE IF RGeq(final.score, PartialThreshold)
    THEN [matches EXCEPT !.partialMatch = Append(@, partialRecord(jdTerm, best, final))]
    ELSE [matches EXCEPT !.missing = Append(@, missingRecord(jdTerm))]

\* The forEach body comparing with > where the code compares with >=.
classifyMatchStrict(matches, jdTerm, best, final, explicitSkills, experienceJobs) ==
    IF RGt(final.score, StrongThreshold)
    THEN [matches EXCEPT
            !.strongMatch = Append(@, strongRecord(jdTerm, best, final,
                                                   explicitSkills, experienceJobs))]
    ELSE IF RGt(final.score, PartialThreshold)
    THEN [matches EXCEPT !.partialMatch = Append(@, partialRecord(jdTerm, best, final))]
    ELSE [matches EXCEPT !.missing = Append(@, missingRecord(jdTerm))]

\* Lines 275-305: the push of one iteration, given its two lookups.
classifyMatch(matches, jdTerm, best, final, explicitSkills, experienceJobs) ==
    IF RGeq(final.score, StrongThreshold)
    THEN [matches EXCEPT
            !.strongMatch = Append(@, strongRecord(jdTerm, best, final,
                                                   explicitSkills, experienceJobs))]
    ELSE IF RGeq(final.score, PartialThreshold)
    THEN [matches EXCEPT !.partialMatch = Append(@, partialRecord(jdTerm, best, final))]
    ELSE [matches EXCEPT !.missing = Append(@, missingRecord(jdTerm))]

----------------------------------------------------------------------------
(* ats.engine (api.js): the score *)

WeightSkillMatch == <<55, 100>>
WeightRequiredMatch == <<18, 100>>
WeightDemonstration == <<10, 100>>
WeightStructure == <<10, 100>>
WeightMetrics == <<7, 100>>

\* arr.filter(m => m.isRequired).length
CountRequired(arr) == Cardinality({i \in 1..Len(arr) : arr[i].isRequired})
\* arr.filter(m => m.inExperience).length
CountInExperience(arr) == Cardinality({i \in 1..Len(arr) : arr[i].inExperience})

\* The skill match without its floor of 0.3.
calculateSkillMatchScoreUnfloored(mr) ==
    LET strongMatchCount == Len(mr.matches.strongMatch)
        partialMatchCount == Len(mr.matches.partialMatch)
        missingCount == Len(mr.matches.missing)
        totalTerms == strongMatchCount + partialMatchCount + missingCount
    IN  IF totalTerms = 0 THEN Rat(1, 2)
        ELSE RMin(RInt(1),
                  Rat(100 * strongMatchCount + 95 * partialMatchCount, 100 * totalTerms))

calculateSkillMatchScore(mr) ==
    LET strongMatchCount == Len(mr.matches.strongMatch)
        partialMatchCount == Len(mr.matches.partialMatch)
        missingCount == Len(mr.matches.missing)
        totalTerms == strongMatchCount + partialMatchCount + missingCount
    IN  IF totalTerms = 0 THEN Rat(1, 2)
        ELSE RMin(RInt(1), RMax(Rat(3, 10),
                Rat(100 * strongMatchCount + 95 * partialMatchCount, 100 * totalTerms)))

\* No vacuous case: an empty set of required terms scores the floor.
calculateRequiredMatchScoreFloored(mr) ==
    LET requiredMatches == CountRequired(mr.matches.strongMatch)
        requiredPartialMatches == CountRequired(mr.matches.partialMatch)
        requiredMissing == CountRequired(mr.matches.missing)
        totalRequired == requiredMatches + requiredPartialMatches + requiredMissing
    IN  IF totalRequired = 0 THEN Rat(1, 4)
        ELSE RMax(Rat(1, 4),
                  Rat(100 * requiredMatches + 75 * requiredPartialMatches, 100 * totalRequired))

calculateRequiredMatchScore(mr) ==
    LET requiredMatches == CountRequired(mr.matches.strongMatch)
        requiredPartialMatches == CountRequired(mr.matches.partialMatch)
        requiredMissing == CountRequired(mr.matches.missing)
        totalRequired == requiredMatches + requiredPartialMatches + requiredMissing
    IN  IF totalRequired = 0 THEN RInt(1)
        ELSE RMax(Rat(1, 4),
                  Rat(100 * requiredMatches + 75 * requiredPartialMatches, 100 * totalRequired))

calculateDemonstrationScore(mr) ==
    LET demonstratedCount == CountInExperience(mr.matches.strongMatch)
        totalStrongMatches == Len(mr.matches.strongMatch)
    IN  IF totalStrongMatches = 0 THEN RInt(0) ELSE Rat(demonstratedCount, totalStrongMatches)

calculateStructureScore(mr) ==
    LET part(k, points) == IF Truthy(mr.sections, k) THEN points ELSE 0
        cap(k, points) == IF HasOwn(mr.sections, k) THEN points ELSE 0
        score == part("skills", 4) + part("experience", 4) + part("summary", 2)
        maxScore == cap("skills", 4) + cap("experience", 4) + cap("summary", 2)
    IN  IF maxScore > 0 THEN Rat(score, maxScore) ELSE RInt(0)

IndustryMultiplier == <<14, 10>>
BaseScore == 20
StrongBonusCap == 12
StrongBonusEach == <<8, 10>>
PartialBonusCap == 8
PartialBonusEach == <<5, 10>>
StructureBonus == 5
MetricsBonus == 3
ScoreCap == 100

\* score += Math.min(cap, count * each), when count > 0
MatchBonus(count, each, cap) ==
    IF count > 0 THEN RMin(RInt(cap), RMul(RInt(count), each)) ELSE RInt(0)

\* The score returned without Math.min(100, score).
calculateATSScoreUncapped(mr) ==
    LET return(c, finalScore, adjusted, floored, bonused) ==
            [skillMatch |-> c.skillMatch,
             requiredMatch |-> c.requiredMatch,
             demonstration |-> c.demonstration,
             structure |-> c.structure,
             metrics |-> c.metrics,
             finalScore |-> finalScore,
             adjusted |-> adjusted,
             floored |-> floored,
             bonused |-> bonused,
             atsScore |-> MathRound(bonused)]
        bonus(c, finalScore, adjusted, floored) ==
            return(c, finalScore, adjusted, floored,
                RAdd(RAdd(RAdd(RAdd(floored,
                    MatchBonus(Len(mr.matches.strongMatch), StrongBonusEach, StrongBonusCap)),
                    MatchBonus(Len(mr.matches.partialMatch), PartialBonusEach, PartialBonusCap)),
                    IF Truthy(mr.sections, "skills") /\ Truthy(mr.sections, "experience")
                    THEN RInt(StructureBonus) ELSE RInt(0)),
                    IF mr.resumeMetrics.hasMetrics THEN RInt(MetricsBonus) ELSE RInt(0)))
        floor(c, finalScore, adjusted) ==
            bonus(c, finalScore, adjusted, RMax(adjusted, RInt(BaseScore)))
        adjust(c, finalScore) ==
            floor(c, finalScore, RMul(RMul(finalScore, RInt(100)), IndustryMultiplier))
        combine(c) ==
            adjust(c, RAdd(RAdd(RAdd(RAdd(RMul(c.skillMatch, WeightSkillMatch),
                                          RMul(c.requiredMatch, WeightRequiredMatch)),
                                     RMul(c.demonstration, WeightDemonstration)),
                                RMul(c.structure, WeightStructure)),
                           RMul(c.metrics, WeightMetrics)))
    IN  combine([skillMatch |-> calculateSkillMatchScore(mr),
                 requiredMatch |-> calculateRequiredMatchScore(mr),
                 demonstration |-> calculateDemonstrationScore(mr),
                 structure |-> calculateStructureScore(mr),
                 metrics |-> IF mr.resumeMetrics.hasMetrics THEN RInt(1) ELSE RInt(0)])

\* The score with the bonuses added before the multiplier and the floor.
calculateATSScoreBonusFirst(mr) ==
    LET return(c, finalScore, adjusted, floored, bonused) ==
            [skillMatch |-> c.skillMatch,
             requiredMatch |-> c.requiredMatch,
             demonstration |-> c.demonstration,
             structure |-> c.structure,
             metrics |-> c.metrics,
             finalScore |-> finalScore,
             adjusted |-> adjusted,
             floored |-> floored,
             bonused |-> bonused,
             atsScore |-> MathRound(RMin(RInt(ScoreCap), bonused))]
        floor(c, finalScore, adjusted) ==
            return(c, finalScore, adjusted, RMax(adjusted, RInt(BaseScore)),
                   RMax(adjusted, RInt(BaseScore)))
        bonus(c, finalScore, scaled) ==
            floor(c, finalScore, RMul(
                RAdd(RAdd(RAdd(RAdd(scaled,
                    MatchBonus(Len(mr.matches.strongMatch), StrongBonusEach, StrongBonusCap)),
                    MatchBonus(Len(mr.matches.partialMatch), PartialBonusEach, PartialBonusCap)),
                    IF Truthy(mr.sections, "skills") /\ Truthy(mr.sections, "experience")
                    THEN RInt(StructureBonus) ELSE RInt(0)),
                    IF mr.resumeMetrics.hasMetrics THEN RInt(MetricsBonus) ELSE RInt(0)),
                IndustryMultiplier))
        adjust(c, finalScore) ==
            bonus(c, finalScore, RMul(finalScore, RInt(100)))
        combine(c) ==
            adjust(c, RAdd(RAdd(RAdd(RAdd(RMul(c.skillMatch, WeightSkillMatch),
                                          RMul(c.requiredMatch, WeightRequiredMatch)),
                                     RMul(c.demonstration, WeightDemonstration)),
                                RMul(c.structure, WeightStructure)),
                           RMul(c.metrics, WeightMetrics)))
    IN  combine([skillMatch |-> calculateSkillMatchScore(mr),
                 requiredMatch |-> calculateRequiredMatchScore(mr),
                 demonstration |-> calculateDemonstrationScore(mr),
                 structure |-> calculateStructureScore(mr),
                 metrics |-> IF mr.resumeMetrics.hasMetrics THEN RInt(1) ELSE RInt(0)])

\* The component scores and the successive values of the local `score`.
calculateATSScore(mr) ==
    LET return(c, finalScore, adjusted, floored, bonused) ==
            [skillMatch |-> c.skillMatch,
             requiredMatch |-> c.requiredMatch,
             demonstration |-> c.demonstration,
             structure |-> c.structure,
             metrics |-> c.metrics,
             finalScore |-> finalScore,
             adjusted |-> adjusted,
             floored |-> floored,
             bonused |-> bonused,
             atsScore |-> MathRound(RMin(RInt(ScoreCap), bonused))]
        bonus(c, finalScore, adjusted, floored) ==
            return(c, finalScore, adjusted, floored,
                RAdd(RAdd(RAdd(RAdd(floored,
                    MatchBonus(Len(mr.matches.strongMatch), StrongBonusEach, StrongBonusCap)),
                    MatchBonus(Len(mr.matches.partialMatch), PartialBonusEach, PartialBonusCap)),
                    IF Truthy(mr.sections, "skills") /\ Truthy(mr.sections, "experience")
                    THEN RInt(StructureBonus) ELSE RInt(0)),
                    IF mr.resumeMetrics.hasMetrics THEN RInt(MetricsBonus) ELSE RInt(0)))
        floor(c, finalScore, adjusted) ==
            bonus(c, finalScore, adjusted, RMax(adjusted, RInt(BaseScore)))
        adjust(c, finalScore) ==
            floor(c, finalScore, RMul(RMul(finalScore, RInt(100)), IndustryMultiplier))
        combine(c) ==
            adjust(c, RAdd(RAdd(RAdd(RAdd(RMul(c.skillMatch, WeightSkillMatch),
                                          RMul(c.requiredMatch, WeightRequiredMatch)),
                                     RMul(c.demonstration, WeightDemonstration)),
                                RMul(c.structure, WeightStructure)),
                           RMul(c.metrics, WeightMetrics)))
    IN  combine([skillMatch |-> calculateSkillMatchScore(mr),
                 requiredMatch |-> calculateRequiredMatchScore(mr),
                 demonstration |-> calculateDemonstrationScore(mr),
                 structure |-> calculateStructureScore(mr),
                 metrics |-> IF mr.resumeMetrics.hasMetrics THEN RInt(1) ELSE RInt(0)])

----------------------------------------------------------------------------
(* section.detector: section order; nlp.utils: action verbs *)

\* Object.keys(sections).indexOf(name), and -1 when the key is absent.
keyIndex(sections, name) ==
    IF HasOwn(sections, name)
    THEN (CHOOSE i \in 1..Len(sections.keys) : sections.keys[i] = name) - 1
    ELSE -1

analyzeSectionOrder(sections) ==
    LET order(skillsIndex, experienceIndex) ==
            IF skillsIndex # -1 /\ experienceIndex # -1 /\ skillsIndex > experienceIndex + 1
            THEN <<[type |-> "section_order",
                    severity |-> "medium",
                    message |-> "Consider moving Skills section closer to the top for better ATS visibility"]>>
            ELSE <<>>
        summary ==
            IF ~HasOwn(sections, "summary")
            THEN <<[type |-> "missing_section",
                    severity |-> "low",
                    message |-> "Adding a professional summary can improve ATS matching"]>>
            ELSE <<>>
    IN  order(keyIndex(sections, "skills"), keyIndex(sections, "experience")) \o summary

isGenericVerb(verb) ==
    toLowerCase(verb) \in {"is", "are", "was", "were", "be", "been", "have", "has", "had",
                           "do", "does", "did"}

\* doc.verbs().out('array') is what the library finds: `found`, of which the text
\* holds every one.  The map and the filter are the code's.
extractActionVerbs(text, found) ==
    LET lowered(verbs) == [i \in 1..Len(verbs) |-> toLowerCase(verbs[i])]
    IN  SelectSeq(lowered(SelectSeq(found, LAMBDA v : includes(text, v))),
                  LAMBDA v : Len(v) > 3 /\ ~isGenericVerb(v))

----------------------------------------------------------------------------
(* ats.engine (api.js): insights and the checklist *)

priorityOrder == [high |-> 0, medium |-> 1, low |-> 2]

\* Insert t after every element that does not sort after it.
RECURSIVE insertByPriority(_, _)
insertByPriority(sorted, t) ==
    IF sorted = <<>> THEN <<t>>
    ELSE IF priorityOrder[Head(sorted).priority] - priorityOrder[t.priority] <= 0
         THEN <<Head(sorted)>> \o insertByPriority(Tail(sorted), t)
         ELSE <<t>> \o sorted

\* A sort that puts an insight before the earlier ones of its priority.
RECURSIVE sortByPriorityLastFirst(_)
sortByPriorityLastFirst(insightList) ==
    IF insightList = <<>> THEN <<>>
    ELSE insertByPriority(sortByPriorityLastFirst(Tail(insightList)), Head(insightList))

\* insights.sort((a, b) => priorityOrder[a.priority] - priorityOrder[b.priority]): stable.
RECURSIVE sortByPriority(_)
sortByPriority(insightList) ==
    IF insightList = <<>> THEN <<>>
    ELSE insertByPriority(sortByPriority(SubSeq(insightList, 1, Len(insightList) - 1)),
                          insightList[Len(insightList)])

\* The insights in the order the seven rules push them (the arrows of the fourth
\* suggestion are U+2192 in the source).
emittedInsights(mr, verbsFound) ==
    LET insight(type, category, message, suggestion, priority) ==
            [type |-> type, category |-> category, message |-> message,
             suggestion |-> suggestion, priority |-> priority]
        each(arr, Make(_)) == [i \in 1..Len(arr) |-> Make(arr[i])]
        missingSkill(skill) ==
            insight("critical", "missing_skill",
                    "\"" \o skill.term \o "\" is required but not found in resume",
                    "Add \"" \o skill.term
                        \o "\" to your skills section and demonstrate it with project examples",
                    "high")
        undemonstrated(match) ==
            insight("warning", "undemonstr ated_skill",
                    "\"" \o match.jdTerm
                        \o "\" is listed in skills but not demonstrated in experience",
                    "Add project or work examples showing your experience with "
                        \o match.jdTerm,
                    "medium")
        missingMetrics ==
            insight("improvement", "missing_metrics",
                    "No quantifiable metrics found in experience section",
                    "Add measurable achievements (e.g., \"Improved performance by 40%\", \"Managed team of 5\")",
                    "high")
        sectionOrder(feedback) ==
            insight("optimization", feedback.type, feedback.message,
                    "Reorder sections to: Summary -> Skills -> Experience -> Education -> Projects",
                    IF feedback.severity = "high" THEN "high" ELSE "medium")
        weakVerbs ==
            insight("improvement", "weak_verbs",
                    "Limited use of strong action verbs in experience section",
                    "Use impactful verbs like: developed, implemented, optimized, architected, led, managed",
                    "medium")
        partialMatch(match) ==
            insight("warning", "partial_match",
                    "\"" \o match.jdTerm \o "\" partially matches \"" \o match.resumeTerm
                        \o "\" (" \o ToString(MathRound(RMul(match.score, RInt(100))))
                        \o "% similarity)",
                    "Consider using the exact term \"" \o match.jdTerm
                        \o "\" for better ATS matching",
                    "medium")
        sparseSkills ==
            insight("improvement", "sparse_skills",
                    "Skills section appears sparse or missing",
                    "Add a dedicated Skills section with 8-15 relevant technical skills",
                    "high")
    IN  each(SelectSeq(mr.matches.missing, LAMBDA m : m.isRequired), missingSkill)
        \o each(SelectSeq(mr.matches.strongMatch,
                          LAMBDA m : m.inSkillsSection /\ ~m.inExperience), undemonstrated)
        \o (IF ~mr.resumeMetrics.hasMetrics THEN <<missingMetrics>> ELSE <<>>)
        \o each(analyzeSectionOrder(mr.sections), sectionOrder)
        \o (IF Truthy(mr.sections, "experience")
               /\ Len(extractActionVerbs(Get(mr.sections, "experience"), verbsFound)) < 5
            THEN <<weakVerbs>> ELSE <<>>)
        \o each(SelectSeq(mr.matches.partialMatch, LAMBDA m : m.isRequired), partialMatch)
        \o (IF mr.resumeMetrics.explicitSkills < 5 THEN <<sparseSkills>> ELSE <<>>)

generateInsights(mr, verbsFound) == sortByPriority(emittedInsights(mr, verbsFound))

\* The checklist with its three sections always, empty or not.
buildImprovementChecklistAllSections(insightList) ==
    LET suggestions(arr) == [i \in 1..Len(arr) |-> arr[i].suggestion]
        section(priority, title, chosen) ==
            <<[priority |-> priority, title |-> title, items |-> suggestions(chosen)]>>
    IN  section("critical", "Critical Improvements",
                SelectSeq(insightList, LAMBDA i : i.priority = "high"))
        \o section("important", "Recommended Improvements",
                   SelectSeq(insightList, LAMBDA i : i.priority = "medium"))
        \o section("optional", "Additional Suggestions",
                   SelectSeq(insightList, LAMBDA i : i.priority = "low"))

buildImprovementChecklist(insightList) ==
    LET suggestions(arr) == [i \in 1..Len(arr) |-> arr[i].suggestion]
        section(priority, title, chosen) ==
            IF Len(chosen) > 0
            THEN <<[priority |-> priority, title |-> title, items |-> suggestions(chosen)]>>
            ELSE <<>>
    IN  section("critical", "Critical Improvements",
                SelectSeq(insightList, LAMBDA i : i.priority = "high"))
        \o section("important", "Recommended Improvements",
                   SelectSeq(insightList, LAMBDA i : i.priority = "medium"))
        \o section("optional", "Additional Suggestions",
                   SelectSeq(insightList, LAMBDA i : i.priority = "low"))

----------------------------------------------------------------------------
(* ats.engine (api.js): the result of performATSAnalysis *)

importance(m) == IF m.isRequired THEN "required" ELSE "preferred"

impact(m) ==
    IF RGt(m.weight, Rat(1, 2)) THEN "high"
    ELSE IF RGt(m.weight, Rat(1, 5)) THEN "medium" ELSE "low"

buildResult(mr, atsScore, insightList, sections) ==
    [atsScore |-> atsScore,
     strongMatches |-> [i \in 1..Len(mr.matches.strongMatch) |->
        LET m == mr.matches.strongMatch[i]
        IN  [skill |-> m.jdTerm, matchedAs |-> m.resumeTerm,
             inSkillsSection |-> m.inSkillsSection, demonstrated |-> m.inExperience,
             importance |-> importance(m)]],
     partialMatches |-> [i \in 1..Len(mr.matches.partialMatch) |->
        LET m == mr.matches.partialMatch[i]
        IN  [skill |-> m.jdTerm, matchedAs |-> m.resumeTerm,
             similarity |-> MathRound(RMul(m.score, RInt(100))),
             importance |-> importance(m)]],
     missingSkills |-> [i \in 1..Len(mr.matches.missing) |->
        LET m == mr.matches.missing[i]
        IN  [skill |-> m.term, importance |-> importance(m), impact |-> impact(m)]],
     sectionFeedback |->
        [hasSkillsSection |-> Truthy(mr.sections, "skills"),
         hasExperienceSection |-> Truthy(mr.sections, "experience"),
         hasMetrics |-> mr.resumeMetrics.hasMetrics,
         skillCount |-> mr.resumeMetrics.explicitSkills,
         sections |-> mr.sections.keys],
     insights |-> insightList,
     checklist |-> sections]

----------------------------------------------------------------------------
(* The analyses the model runs *)

MaxJdTerms == 3
MaxResumeTerms == 2

JD_A == "Required: Python, 5+ years experience. AWS preferred."
JD_C == "Must have Kubernetes and Docker."
JD_U == "Machine  learning and Redis are a bonus."
JD_W == "Postgres is a plus for the reporting side of the product where analysts explore data and build dashboards daily. PostgreSQL required."
JD_P == "Docker and Redis for the platform TEAM"
JD_F == "Python, python and more PYTHON is ideal"

\* Each job description with the terms extractSkills and extractPhrases may find in it.
JdScenarios ==
    { [text |-> JD_A, pool |-> {"python", "aws"}],
      [text |-> JD_C, pool |-> {"kubernetes", "docker"}],
      [text |-> JD_U, pool |-> {"machine learning", "redis"}],
      [text |-> JD_W, pool |-> {"postgres", "postgresql"}],
      [text |-> JD_P, pool |-> {"docker", "redis", "team"}],
      [text |-> JD_F, pool |-> {"python"}],
      [text |-> "", pool |-> {}] }

R_A == "Skills\nPython, AWS, Docker\nExperience\nSoftware Engineer 2020\n- Built services using Python"
R_B == "I wrote docs and built services using Python and Redis, cutting cost by 40%"
R_C == "Summary\nPlatform person\nSkills\nkuberntes, Docker\nExperience\nEngineer 2021\n- Ran kuberntes clusters"
R_S == "Skills\nPostgres, Redis"
R_H == "Education\nBSc 2015\nProjects\nA Redis clone"
R_O == "Experience\nDeveloper 2019\n- Led, built, designed, tested, shipped and deployed APIs\nEducation\nBSc 2012\nSkills\nRust, Go"

\* Each resume with the terms extractSkills and extractPhrases may find in it, and
\* the verbs doc.verbs() finds in it.
ResumeScenarios ==
    { [text |-> R_A, pool |-> {"python", "aws", "docker"}, verbs |-> <<"Built", "using">>],
      [text |-> R_B, pool |-> {"python", "redis", "docs"},
       verbs |-> <<"wrote", "built", "using", "cutting">>],
      [text |-> R_C, pool |-> {"kuberntes", "docker"}, verbs |-> <<"Ran">>],
      [text |-> R_S, pool |-> {"postgres", "redis"}, verbs |-> <<>>],
      [text |-> R_H, pool |-> {"redis"}, verbs |-> <<>>],
      [text |-> R_O, pool |-> {"rust"},
       verbs |-> <<"Led", "built", "designed", "tested", "shipped", "deployed">>],
      [text |-> "", pool |-> {}, verbs |-> <<>>] }

\* extractSkills and extractPhrases read preprocessText(text), return lower-cased
\* terms, and keep a term only if it is longer than two characters and no stop word.
Extractable(text, pool) ==
    {t \in pool : /\ includes(toLowerCase(preprocessText(text)), t)
                  /\ Len(t) > 2
                  /\ ~isStopWord(t)}

\* The sequences of at most max distinct terms.
TermSeqs(terms, max) ==
    UNION {{s \in [1..n -> terms] : \A i, j \in 1..n : i # j => s[i] # s[j]} : n \in 0..max}

EmptyAnalysis ==
    [allTerms |-> <<>>, weightedTerms |-> <<>>, requiredSkills |-> {}, preferredSkills |-> {}]
EmptyMatchResults ==
    [matches |-> EmptyMatches, sections |-> EmptyObj, experienceJobs |-> <<>>,
     explicitSkills |-> <<>>, resumeMetrics |-> NoMetrics]
NoScore == [atsScore |-> -1]
NoResult == [atsScore |-> -1]

\* No function is followed line by line.
NoFrame == [fn |-> "none"]

\* The module-level tables: nlp.utils, spellcheck.utils and section.detector.
StaticTables ==
    [skillNormalizations |-> skillNormalizations,
     commonTechTypos |-> commonTechTypos,
     SECTION_HEADERS |-> SECTION_HEADERS]

Init ==
    /\ pc = "analyze"
    /\ \E jd \in JdScenarios :
          /\ jdText = jd.text
          /\ jdExtracted \in TermSeqs(Extractable(jd.text, jd.pool), MaxJdTerms)
    /\ \E cv \in ResumeScenarios :
          /\ resumeText = cv.text
          /\ resumeExtracted \in TermSeqs(Extractable(cv.text, cv.pool), MaxResumeTerms)
          /\ verbsExtracted = cv.verbs
    /\ jdAnalysis = EmptyAnalysis
    /\ matchResults = EmptyMatchResults
    /\ allResumeTerms = <<>>
    /\ termIdx = 0
    /\ bestMatch = NoMatch
    /\ finalMatch = [match |-> Null, score |-> RInt(0)]
    /\ insights = <<>>
    /\ scoreSteps = NoScore
    /\ checklist = <<>>
    /\ result = NoResult
    /\ runs = <<>>
    /\ tables = StaticTables
    /\ frame = NoFrame

----------------------------------------------------------------------------
(* performATSAnalysis, one call after the other *)

\* const jdAnalysis = analyzeJobDescription(jdText)
AnalyzeJD ==
    /\ pc = "analyze"
    /\ jdAnalysis' = analyzeJobDescription(jdText, jdExtracted)
    /\ pc' = "sections"
    /\ UNCHANGED <<jdText, resumeText, jdExtracted, resumeExtracted, matchResults,
                   allResumeTerms, termIdx, bestMatch, finalMatch, scoreSteps, result,
                   verbsExtracted, insights, checklist, runs, tables, frame>>

\* Lines 257-266: what matchResumeToJD holds before its forEach.
extractSections(sections) ==
    [matches |-> EmptyMatches,
     sections |-> sections,
     experienceJobs |-> IF Truthy(sections, "experience")
                        THEN parseExperienceSection(Get(sections, "experience"))
                        ELSE <<>>,
     explicitSkills |-> IF Truthy(sections, "skills")
                        THEN parseSkillsSection(Get(sections, "skills"))
                        ELSE <<>>,
     resumeMetrics |-> NoMetrics]

\* matchResumeToJD up to the forEach
PrepareMatch ==
    /\ pc = "sections"
    /\ \E sections \in {sectionsWithFallback(resumeText)} :
          matchResults' = extractSections(sections)
    /\ allResumeTerms' = normalizedResumeTerms(resumeExtracted)
    /\ termIdx' = 1
    /\ pc' = "find"
    /\ UNCHANGED <<jdText, resumeText, jdExtracted, resumeExtracted, jdAnalysis,
                   bestMatch, finalMatch, scoreSteps, result,
                   verbsExtracted, insights, checklist, runs, tables, frame>>

\* The lookup the forEach callback falls back on
finalMatchOf(best, targetSkill, skillsList) ==
    IF best.match # Null
    THEN [match |-> best.match, score |-> best.score]
    ELSE findBestMatch(targetSkill, skillsList)

\* The two lookups of one iteration of the forEach
FindMatch ==
    /\ pc = "find"
    /\ termIdx <= Len(jdAnalysis.weightedTerms)
    /\ bestMatch' = findBestMatchWithTypoTolerance(jdAnalysis.weightedTerms[termIdx].term,
                                                   allResumeTerms, TypoThreshold)
    /\ finalMatch' = finalMatchOf(bestMatch', jdAnalysis.weightedTerms[termIdx].term,
                                  allResumeTerms)
    /\ pc' = "classify"
    /\ UNCHANGED <<jdText, resumeText, jdExtracted, resumeExtracted, jdAnalysis,
                   matchResults, allResumeTerms, termIdx, scoreSteps, result,
                   verbsExtracted, insights, checklist, runs, tables, frame>>

\* isTermInExperience(finalMatch.match, experienceJobs) of a strong match calls
\* term.toLowerCase() for the first bullet it visits: a TypeError when the term is null.
classifyThrows(final, experienceJobs) ==
    /\ RGeq(final.score, StrongThreshold)
    /\ final.match = Null
    /\ \E j \in 1..Len(experienceJobs) : Len(experienceJobs[j].bullets) > 0

\* The if / else if / else of the same iteration
ClassifyMatch ==
    /\ pc = "classify"
    /\ IF classifyThrows(finalMatch, matchResults.experienceJobs)
       THEN /\ pc' = "threw"
            /\ UNCHANGED <<matchResults, termIdx>>
       ELSE /\ matchResults' = [matchResults EXCEPT !.matches =
                    classifyMatch(@, jdAnalysis.weightedTerms[termIdx], bestMatch, finalMatch,
                                  matchResults.explicitSkills, matchResults.experienceJobs)]
            /\ termIdx' = termIdx + 1
            /\ pc' = "find"
    /\ UNCHANGED <<jdText, resumeText, jdExtracted, resumeExtracted, jdAnalysis,
                   allResumeTerms, bestMatch, finalMatch, scoreSteps, result,
                   verbsExtracted, insights, checklist, runs, tables, frame>>

\* Lines 312-316
resumeMetrics(sections, resumeTerms, explicitSkills) ==
    [hasMetrics |-> hasQuantifiableMetrics(IF Truthy(sections, "experience")
                                           THEN Get(sections, "experience") ELSE ""),
     totalSkills |-> Len(resumeTerms),
     explicitSkills |-> Len(explicitSkills)]

\* The return of matchResumeToJD
FinishMatch ==
    /\ pc = "find"
    /\ termIdx > Len(jdAnalysis.weightedTerms)
    /\ matchResults' = [matchResults EXCEPT !.resumeMetrics =
            resumeMetrics(matchResults.sections, allResumeTerms, matchResults.explicitSkills)]
    /\ pc' = "insights"
    /\ UNCHANGED <<jdText, resumeText, jdExtracted, resumeExtracted, jdAnalysis,
                   allResumeTerms, termIdx, bestMatch, finalMatch, scoreSteps, result,
                   verbsExtracted, insights, checklist, runs, tables, frame>>

\* const insights = generateInsights(matchResults, jdAnalysis)
GenerateInsights ==
    /\ pc = "insights"
    /\ insights' = generateInsights(matchResults, verbsExtracted)
    /\ pc' = "score"
    /\ UNCHANGED <<jdText, resumeText, jdExtracted, resumeExtracted, jdAnalysis,
                   matchResults, allResumeTerms, termIdx, bestMatch, finalMatch,
                   scoreSteps, result, verbsExtracted, checklist, runs, tables, frame>>

\* const atsScore = calculateATSScore(matchResults, insights)
CalculateScore ==
    /\ pc = "score"
    /\ scoreSteps' = calculateATSScore(matchResults)
    /\ pc' = "checklist"
    /\ UNCHANGED <<jdText, resumeText, jdExtracted, resumeExtracted, jdAnalysis,
                   matchResults, allResumeTerms, termIdx, bestMatch, finalMatch, result,
                   verbsExtracted, insights, checklist, runs, tables, frame>>

\* const checklist = buildImprovementChecklist(insights, matchResults)
BuildChecklist ==
    /\ pc = "checklist"
    /\ checklist' = buildImprovementChecklist(insights)
    /\ pc' = "report"
    /\ UNCHANGED <<jdText, resumeText, jdExtracted, resumeExtracted, jdAnalysis,
                   matchResults, allResumeTerms, termIdx, bestMatch, finalMatch,
                   scoreSteps, result, verbsExtracted, insights, runs, tables, frame>>

\* The return of performATSAnalysis
Report ==
    /\ pc = "report"
    /\ result' = buildResult(matchResults, scoreSteps.atsScore, insights, checklist)
    /\ pc' = "done"
    /\ UNCHANGED <<jdText, resumeText, jdExtracted, resumeExtracted, jdAnalysis,
                   matchResults, allResumeTerms, termIdx, bestMatch, finalMatch, scoreSteps,
                   verbsExtracted, insights, checklist, runs, tables, frame>>

Next ==
    \/ AnalyzeJD
    \/ PrepareMatch
    \/ FindMatch
    \/ ClassifyMatch
    \/ FinishMatch
    \/ GenerateInsights
    \/ CalculateScore
    \/ BuildChecklist
    \/ Report

Spec == Init /\ [][Next]_vars

----------------------------------------------------------------------------
(* calculateATSScore on its own, over the match results it can be handed *)

MaxCount == 2
SaturatingCount == 16

\* List lengths: the small ones, and one beyond both bonus caps.
Counts == 0..MaxCount \cup {SaturatingCount}

\* How many of n records carry a flag: none, one, or all.
Flagged(n) == {0, 1, n} \cap 0..n

strongRecords(n, required, demonstrated) ==
    [i \in 1..n |->
        [jdTerm |-> "term", resumeTerm |-> "term", score |-> RInt(1), weight |-> Rat(1, 10),
         isRequired |-> i <= required, inSkillsSection |-> FALSE,
         inExperience |-> i <= demonstrated, typoCorrection |-> FALSE]]

partialRecords(n, required) ==
    [i \in 1..n |->
        [jdTerm |-> "term", resumeTerm |-> "term", score |-> Rat(1, 2), weight |-> Rat(1, 10),
         isRequired |-> i <= required, typoCorrection |-> FALSE]]

missingRecords(n, required) ==
    [i \in 1..n |->
        [term |-> "term", weight |-> Rat(1, 10),
         isRequired |-> i <= required, isPreferred |-> FALSE]]

\* What matchResumeToJD returns for a resume, with the three lists of the given sizes.
InitScore ==
    /\ pc = "score"
    /\ jdText = ""
    /\ jdExtracted = <<>>
    /\ resumeExtracted = <<>>
    /\ jdAnalysis = EmptyAnalysis
    /\ allResumeTerms = <<>>
    /\ termIdx = 0
    /\ bestMatch = NoMatch
    /\ finalMatch = [match |-> Null, score |-> RInt(0)]
    /\ scoreSteps = NoScore
    /\ result = NoResult
    /\ verbsExtracted = <<>>
    /\ insights = <<>>
    /\ checklist = <<>>
    /\ runs = <<>>
    /\ tables = StaticTables
    /\ frame = NoFrame
    /\ resumeText \in {cv.text : cv \in ResumeScenarios}
    /\ \E base \in {extractSections(sectionsWithFallback(resumeText))} :
       \E metrics \in {resumeMetrics(base.sections, <<>>, base.explicitSkills)} :
       \E s \in Counts, p \in Counts, m \in Counts :
       \E sr \in Flagged(s), sd \in Flagged(s), pr \in Flagged(p), mr \in Flagged(m) :
          matchResults = [base EXCEPT
                            !.matches = [strongMatch |-> strongRecords(s, sr, sd),
                                         partialMatch |-> partialRecords(p, pr),
                                         missing |-> missingRecords(m, mr)],
                            !.resumeMetrics = metrics]

NextScore == CalculateScore

SpecScore == InitScore /\ [][NextScore]_vars

----------------------------------------------------------------------------
(* One iteration's classification on its own, over the scores a lookup can return *)

\* Scores are the multiples of 1/ScoreGrid in [0, 1].
ScoreGrid == 1000

InitClassify ==
    /\ pc = "classify"
    /\ resumeText = R_A
    /\ resumeExtracted = <<"python">>
    /\ allResumeTerms = normalizedResumeTerms(resumeExtracted)
    /\ matchResults = extractSections(sectionsWithFallback(resumeText))
    /\ \E jd \in JdScenarios :
          /\ jdText = jd.text
          /\ jdExtracted \in {t \in TermSeqs(Extractable(jd.text, jd.pool), 1) : Len(t) = 1}
    /\ jdAnalysis \in {a \in {analyzeJobDescription(jdText, jdExtracted)} :
                          Len(a.weightedTerms) = 1}
    /\ termIdx = 1
    /\ \E k \in 0..ScoreGrid, corrected \in BOOLEAN :
          /\ finalMatch = [match |-> allResumeTerms[1], score |-> Rat(k, ScoreGrid)]
          /\ bestMatch = [match |-> IF RGeq(finalMatch.score, TypoThreshold)
                                    THEN finalMatch.match ELSE Null,
                          score |-> finalMatch.score,
                          corrected |-> corrected]
    /\ scoreSteps = NoScore
    /\ result = NoResult
    /\ verbsExtracted = <<>>
    /\ insights = <<>>
    /\ checklist = <<>>
    /\ runs = <<>>
    /\ tables = StaticTables
    /\ frame = NoFrame

NextClassify == ClassifyMatch

SpecClassify == InitClassify /\ [][NextClassify]_vars


----------------------------------------------------------------------------
(* buildImprovementChecklist on its own, over lists of insights of any priority *)

MaxInsights == 4

\* The k-th insight of a list, told from the others by its suggestion.
insightOf(k, priority) ==
    [type |-> "improvement", category |-> "category", message |-> "message",
     suggestion |-> "suggestion " \o ToString(k), priority |-> priority]

InitChecklist ==
    /\ pc = "checklist"
    /\ jdText = ""
    /\ resumeText = ""
    /\ jdExtracted = <<>>
    /\ resumeExtracted = <<>>
    /\ verbsExtracted = <<>>
    /\ jdAnalysis = EmptyAnalysis
    /\ matchResults = EmptyMatchResults
    /\ allResumeTerms = <<>>
    /\ termIdx = 0
    /\ bestMatch = NoMatch
    /\ finalMatch = [match |-> Null, score |-> RInt(0)]
    /\ scoreSteps = NoScore
    /\ \E n \in 0..MaxInsights :
       \E priorities \in [1..n -> {"high", "medium", "low"}] :
          insights = [k \in 1..n |-> insightOf(k, priorities[k])]
    /\ checklist = <<>>
    /\ result = NoResult
    /\ runs = <<>>
    /\ tables = StaticTables
    /\ frame = NoFrame

NextChecklist == BuildChecklist

SpecChecklist == InitChecklist /\ [][NextChecklist]_vars

----------------------------------------------------------------------------
(* Several analyses at once: each call of performATSAnalysis with its own locals *)

\* The forEach of matchResumeToJD from the k-th weighted term on; the three lists are
\* complete up to the term before it.
RECURSIVE matchTerms(_, _, _, _, _, _)
matchTerms(matches, weightedTerms, k, resumeTerms, explicitSkills, experienceJobs) ==
    LET classify(jdTerm, best) ==
            classifyMatch(matches, jdTerm, best, finalMatchOf(best, jdTerm.term, resumeTerms),
                          explicitSkills, experienceJobs)
        iteration(jdTerm) ==
            classify(jdTerm, findBestMatchWithTypoTolerance(jdTerm.term, resumeTerms,
                                                            TypoThreshold))
    IN  IF k > Len(weightedTerms) \/ Len(matches.strongMatch) < 0 THEN matches
        ELSE matchTerms(iteration(weightedTerms[k]), weightedTerms, k + 1, resumeTerms,
                        explicitSkills, experienceJobs)

\* matchResumeToJD(resumeText, jdAnalysis), the terms extracted from the resume given
matchResumeToJD(text, extracted, analysis) ==
    LET return(base, resumeTerms) ==
            [base EXCEPT
                !.matches = matchTerms(EmptyMatches, analysis.weightedTerms, 1, resumeTerms,
                                       base.explicitSkills, base.experienceJobs),
                !.resumeMetrics = resumeMetrics(base.sections, resumeTerms,
                                                base.explicitSkills)]
    IN  return(extractSections(sectionsWithFallback(text)), normalizedResumeTerms(extracted))

\* What one call works on: the two texts, what the NLP library extracts from them,
\* and the time at which the call is made.
AnalysisInputs ==
    { [jdText |-> JD_A, jdTerms |-> <<"python", "aws">>,
       resumeText |-> R_A, resumeTerms |-> <<"python", "docker">>,
       verbs |-> <<"Built", "using">>],
      [jdText |-> JD_C, jdTerms |-> <<"kubernetes", "docker">>,
       resumeText |-> R_C, resumeTerms |-> <<"kuberntes", "docker">>,
       verbs |-> <<"Ran">>],
      [jdText |-> JD_P, jdTerms |-> <<"docker", "redis">>,
       resumeText |-> R_B, resumeTerms |-> <<"python", "redis">>,
       verbs |-> <<"wrote", "built", "using", "cutting">>] }

\* The callers, e.g. two requests handled by the same process.
Procs == {"a", "b"}

\* The calls made in all.
MaxCalls == 3

\* The calls made so far.
RECURSIVE callsMade(_, _)
callsMade(rs, callers) ==
    IF callers = {} THEN 0
    ELSE LET p == CHOOSE q \in callers : TRUE
         IN  rs[p].calls + callsMade(rs, callers \ {p})

\* No call before this one.
NoPrevious == [result |-> NoResult]

\* The locals of a call that has just been made.
newCall(input, startedAt, calls, previous) ==
    [pc |-> "analyze", input |-> input, startedAt |-> startedAt, calls |-> calls,
     previous |-> previous,
     jdAnalysis |-> EmptyAnalysis, matchResults |-> EmptyMatchResults,
     insights |-> <<>>, atsScore |-> -1, checklist |-> <<>>, result |-> NoResult]

\* const jdAnalysis = analyzeJobDescription(jdText)
analyzeStep(rs, p) ==
    [rs EXCEPT ![p].jdAnalysis = analyzeJobDescription(rs[p].input.jdText, rs[p].input.jdTerms),
               ![p].pc = "match"]

\* A matchResumeToJD that leaves its result where every call reads it.
matchStepShared(rs, p) ==
    LET found == matchResumeToJD(rs[p].input.resumeText, rs[p].input.resumeTerms,
                                 rs[p].jdAnalysis)
    IN  [q \in DOMAIN rs |->
            [rs[q] EXCEPT !.matchResults = found,
                          !.pc = IF q = p THEN "insights" ELSE @]]

\* const matchResults = matchResumeToJD(resumeText, jdAnalysis)
matchStep(rs, p) ==
    [rs EXCEPT ![p].matchResults = matchResumeToJD(rs[p].input.resumeText,
                                                   rs[p].input.resumeTerms, rs[p].jdAnalysis),
               ![p].pc = "insights"]

\* A generateInsights that pushes onto the list of the call before.
insightsStepAccumulating(rs, p) ==
    [rs EXCEPT ![p].insights =
                    sortByPriority((IF rs[p].calls = 1 THEN <<>>
                                    ELSE rs[p].previous.result.insights)
                                   \o emittedInsights(rs[p].matchResults, rs[p].input.verbs)),
               ![p].pc = "score"]

\* const insights = generateInsights(matchResults, jdAnalysis)
insightsStep(rs, p) ==
    [rs EXCEPT ![p].insights = generateInsights(rs[p].matchResults, rs[p].input.verbs),
               ![p].pc = "score"]

\* const atsScore = calculateATSScore(matchResults, insights)
scoreStep(rs, p) ==
    [rs EXCEPT ![p].atsScore = calculateATSScore(rs[p].matchResults).atsScore,
               ![p].pc = "checklist"]

\* const checklist = buildImprovementChecklist(insights, matchResults)
checklistStep(rs, p) ==
    [rs EXCEPT ![p].checklist = buildImprovementChecklist(rs[p].insights),
               ![p].pc = "return"]

\* return { atsScore, strongMatches, ..., insights, checklist }
returnStep(rs, p) ==
    [rs EXCEPT ![p].result = buildResult(rs[p].matchResults, rs[p].atsScore, rs[p].insights,
                                         rs[p].checklist),
               ![p].pc = "done"]

\* performATSAnalysis(resumeText, jdText), run from start to end with nothing in between
performATSAnalysis(input) ==
    LET alone == [p \in {"alone"} |-> newCall(input, 0, 1, NoPrevious)]
        run == returnStep(checklistStep(scoreStep(insightsStep(matchStep(
                   analyzeStep(alone, "alone"), "alone"), "alone"), "alone"), "alone"),
                   "alone")
    IN  run["alone"].result

\* The result of each input when its analysis runs alone.
AloneResult == [input \in AnalysisInputs |-> performATSAnalysis(input)]

InitInterleave ==
    /\ pc = "interleaved"
    /\ jdText = ""
    /\ resumeText = ""
    /\ jdExtracted = <<>>
    /\ resumeExtracted = <<>>
    /\ verbsExtracted = <<>>
    /\ jdAnalysis = EmptyAnalysis
    /\ matchResults = EmptyMatchResults
    /\ allResumeTerms = <<>>
    /\ termIdx = 0
    /\ bestMatch = NoMatch
    /\ finalMatch = [match |-> Null, score |-> RInt(0)]
    /\ scoreSteps = NoScore
    /\ insights = <<>>
    /\ checklist = <<>>
    /\ result = NoResult
    /\ \E inputs \in [Procs -> AnalysisInputs] :
          runs = [p \in Procs |-> newCall(inputs[p], 0, 1, NoPrevious)]
    /\ tables = StaticTables
    /\ frame = NoFrame

Others ==
    <<pc, jdText, resumeText, jdExtracted, resumeExtracted, verbsExtracted, jdAnalysis,
      matchResults, allResumeTerms, termIdx, bestMatch, finalMatch, scoreSteps, insights,
      checklist, result, tables, frame>>

AnalyzeCall(p) ==
    /\ runs[p].pc = "analyze"
    /\ \E after \in {analyzeStep(runs, p)} : runs' = after
    /\ UNCHANGED Others

MatchCall(p) ==
    /\ runs[p].pc = "match"
    /\ \E after \in {matchStep(runs, p)} : runs' = after
    /\ UNCHANGED Others

InsightsCall(p) ==
    /\ runs[p].pc = "insights"
    /\ \E after \in {insightsStep(runs, p)} : runs' = after
    /\ UNCHANGED Others

ScoreCall(p) ==
    /\ runs[p].pc = "score"
    /\ \E after \in {scoreStep(runs, p)} : runs' = after
    /\ UNCHANGED Others

ChecklistCall(p) ==
    /\ runs[p].pc = "checklist"
    /\ \E after \in {checklistStep(runs, p)} : runs' = after
    /\ UNCHANGED Others

ReturnCall(p) ==
    /\ runs[p].pc = "return"
    /\ \E after \in {returnStep(runs, p)} : runs' = after
    /\ UNCHANGED Others

\* The caller calls again, later, with any input; its earlier result is kept aside.
CallAgain(p) ==
    /\ runs[p].pc = "done"
    /\ callsMade(runs, Procs) < MaxCalls
    /\ \E input \in AnalysisInputs :
          runs' = [runs EXCEPT ![p] =
                newCall(input, runs[p].startedAt + 1, runs[p].calls + 1,
                        [input |-> runs[p].input, startedAt |-> runs[p].startedAt,
                         result |-> runs[p].result])]
    /\ UNCHANGED Others

NextInterleave ==
    \E p \in Procs :
        \/ AnalyzeCall(p)
        \/ MatchCall(p)
        \/ InsightsCall(p)
        \/ ScoreCall(p)
        \/ ChecklistCall(p)
        \/ ReturnCall(p)
        \/ CallAgain(p)

SpecInterleave == InitInterleave /\ [][NextInterleave]_vars

----------------------------------------------------------------------------
(* detectSections, one line of its forEach at a time *)

\* The variables of the analysis, which no step of a followed function touches.
analysisVars ==
    <<pc, jdText, resumeText, jdExtracted, resumeExtracted, verbsExtracted, jdAnalysis,
      matchResults, allResumeTerms, termIdx, bestMatch, finalMatch, scoreSteps, insights,
      checklist, result, runs, tables>>

\* No analysis is in progress.
NoAnalysis ==
    /\ pc = "none"
    /\ jdText = ""
    /\ resumeText = ""
    /\ jdExtracted = <<>>
    /\ resumeExtracted = <<>>
    /\ verbsExtracted = <<>>
    /\ jdAnalysis = EmptyAnalysis
    /\ matchResults = EmptyMatchResults
    /\ allResumeTerms = <<>>
    /\ termIdx = 0
    /\ bestMatch = NoMatch
    /\ finalMatch = [match |-> Null, score |-> RInt(0)]
    /\ scoreSteps = NoScore
    /\ insights = <<>>
    /\ checklist = <<>>
    /\ result = NoResult
    /\ runs = <<>>
    /\ tables = StaticTables

MaxLines == 4

\* The lines resumes are made of here: two exact headers (one with a colon), a line
\* that contains a header, two lines of content and a blank line.
ResumeLines == {"Skills", "Experience:", "My Skills", " Python, AWS", "- Built APIs", " "}

\* The sequences of at most max of these lines.
LineSeqs(alphabet, max) == UNION {[1..n -> alphabet] : n \in 0..max}

\* A section saved with its header alone.
saveSectionAlways(sections, currentSection, currentContent) ==
    SetKey(sections, currentSection, join(currentContent, "\n"))

\* Lines 41-43 and 56-58: if (currentContent.length > 0) sections[currentSection] = ...
saveSection(sections, currentSection, currentContent) ==
    IF Len(currentContent) > 0
    THEN SetKey(sections, currentSection, join(currentContent, "\n"))
    ELSE sections

InitSections ==
    /\ NoAnalysis
    /\ \E lines \in LineSeqs(ResumeLines, MaxLines) :
          frame = [fn |-> "detectSections", pc |-> "call", text |-> join(lines, "\n"),
                   lines |-> <<>>, index |-> 0, sections |-> EmptyObj,
                   currentSection |-> "header", currentContent |-> <<>>]

\* if (!resumeText) return {}
ReturnEmpty ==
    /\ frame.pc = "call"
    /\ frame.text = ""
    /\ frame' = [frame EXCEPT !.pc = "done"]
    /\ UNCHANGED analysisVars

\* const lines = resumeText.split('\n')
SplitLines ==
    /\ frame.pc = "call"
    /\ frame.text # ""
    /\ frame' = [frame EXCEPT !.lines = split(frame.text, {"\n"}), !.index = 1,
                              !.pc = "forEach"]
    /\ UNCHANGED analysisVars

\* The line the forEach is at, trimmed.
trimmedLine(f) == trim(f.lines[f.index])

\* if (!trimmed) return
SkipLine ==
    /\ frame.pc = "forEach"
    /\ frame.index <= Len(frame.lines)
    /\ trimmedLine(frame) = ""
    /\ frame' = [frame EXCEPT !.index = @ + 1]
    /\ UNCHANGED analysisVars

\* if (detectedSection) { save the previous section; start the new one }
HeaderLine ==
    /\ frame.pc = "forEach"
    /\ frame.index <= Len(frame.lines)
    /\ trimmedLine(frame) # ""
    /\ \E detectedSection \in {detectSectionHeader(trimmedLine(frame))} :
          /\ detectedSection # Null
          /\ frame' = [frame EXCEPT
                !.sections = saveSection(@, frame.currentSection, frame.currentContent),
                !.currentSection = detectedSection,
                !.currentContent = <<>>,
                !.index = @ + 1]
    /\ UNCHANGED analysisVars

\* else currentContent.push(trimmed)
ContentLine ==
    /\ frame.pc = "forEach"
    /\ frame.index <= Len(frame.lines)
    /\ trimmedLine(frame) # ""
    /\ detectSectionHeader(trimmedLine(frame)) = Null
    /\ frame' = [frame EXCEPT !.currentContent = Append(@, trimmedLine(frame)),
                              !.index = @ + 1]
    /\ UNCHANGED analysisVars

\* After the forEach: save the last section and return
ReturnSections ==
    /\ frame.pc = "forEach"
    /\ frame.index > Len(frame.lines)
    /\ frame' = [frame EXCEPT
            !.sections = saveSection(@, frame.currentSection, frame.currentContent),
            !.pc = "done"]
    /\ UNCHANGED analysisVars

NextSections ==
    \/ ReturnEmpty
    \/ SplitLines
    \/ SkipLine
    \/ HeaderLine
    \/ ContentLine
    \/ ReturnSections

SpecSections == InitSections /\ [][NextSections]_vars

----------------------------------------------------------------------------
(* One iteration of the forEach of matchResumeToJD, over terms and resume term lists *)

\* The misspellings the dictionary lists for a skill.
TyposOf(canonical) ==
    {commonTechTypos[i][1] : i \in {k \in 1..Len(commonTechTypos) :
        commonTechTypos[k][2] = canonical /\ commonTechTypos[k][1] # canonical}}

\* The skills the dictionary has a misspelling of.
Misspelled == {commonTechTypos[i][2] : i \in {k \in 1..Len(commonTechTypos) :
                                                 commonTechTypos[k][1] # commonTechTypos[k][2]}}

\* The terms looked up: the skills above, a misspelled one and one the dictionary
\* does not know.
LookupTargets == Misspelled \cup {"kuberntes", "java"}

\* Resume terms that are no spelling of the target.
OtherTerms == {"java", "docker"}

\* The resume term lists a target is looked up in: none, one or two terms.
CandidateLists(target) ==
    LET near == TyposOf(target) \cup {target, autocorrectSkill(target)} \cup OtherTerms
    IN  {<<>>} \cup {<<c>> : c \in near}
               \cup {<<c, o>> : c \in near, o \in OtherTerms}
               \cup {<<o, c>> : c \in near, o \in OtherTerms}

\* A weighted term of a job description.
weightedTerm(term) ==
    [term |-> term, originalTerm |-> term, weight |-> Rat(1, 10), isRequired |-> TRUE,
     isPreferred |-> FALSE, frequency |-> 1]

InitLookup ==
    /\ pc = "find"
    /\ jdText = ""
    /\ jdExtracted = <<>>
    /\ resumeText = R_A
    /\ resumeExtracted = <<>>
    /\ verbsExtracted = <<>>
    /\ matchResults = extractSections(sectionsWithFallback(resumeText))
    /\ \E target \in LookupTargets :
          /\ jdAnalysis = [EmptyAnalysis EXCEPT !.allTerms = <<target>>,
                                                !.weightedTerms = <<weightedTerm(target)>>]
          /\ allResumeTerms \in CandidateLists(target)
    /\ termIdx = 1
    /\ bestMatch = NoMatch
    /\ finalMatch = [match |-> Null, score |-> RInt(0)]
    /\ scoreSteps = NoScore
    /\ insights = <<>>
    /\ checklist = <<>>
    /\ result = NoResult
    /\ runs = <<>>
    /\ tables = StaticTables
    /\ frame = NoFrame

NextLookup == FindMatch \/ ClassifyMatch

SpecLookup == InitLookup /\ [][NextLookup]_vars

----------------------------------------------------------------------------
(* The analysis of a job description and a resume that name the same skill *)

\* Skills as they are written in both texts: plain ones, ones the synonym table
\* maps to a form of two characters, ones it maps to a longer form, and ones the
\* typo dictionary rewrites.
SharedSkills ==
    {"python", "postgres", "machine learning", "artificial intelligence", "golang",
     "nodejs", "node.js", "reactjs", "kuberntes", "docker"}

InitSameSkill ==
    /\ pc = "analyze"
    /\ \E skill \in SharedSkills :
          /\ jdText = "Must have " \o skill \o " skills"
          /\ jdExtracted \in TermSeqs(Extractable(jdText, {skill}), 1)
          /\ Len(jdExtracted) = 1
          /\ resumeText = "Skills\n" \o skill \o ", Java\nExperience\nEngineer 2020\n- Used "
                              \o skill \o " daily"
          /\ \E others \in SUBSET {"java"} :
                /\ resumeExtracted \in TermSeqs(Extractable(resumeText, {skill} \cup others), 2)
                /\ skill \in SeqToSet(resumeExtracted)
    /\ verbsExtracted = <<"Used">>
    /\ jdAnalysis = EmptyAnalysis
    /\ matchResults = EmptyMatchResults
    /\ allResumeTerms = <<>>
    /\ termIdx = 0
    /\ bestMatch = NoMatch
    /\ finalMatch = [match |-> Null, score |-> RInt(0)]
    /\ scoreSteps = NoScore
    /\ insights = <<>>
    /\ checklist = <<>>
    /\ result = NoResult
    /\ runs = <<>>
    /\ tables = StaticTables
    /\ frame = NoFrame

SpecSameSkill == InitSameSkill /\ [][Next]_vars

----------------------------------------------------------------------------
(* parseExperienceSection, one line of its forEach at a time *)

\* The lines experience sections are made of here: a title line by its year, one by
\* its job word, one by its dash, one by its pipe; a bullet, a numbered bullet, a
\* bullet whose text starts with a number; a plain line and a blank line.
ExperienceLines ==
    {"Acme 2020", "Data Analyst", "Acme " \o EmDash \o " Remote", "Acme | Remote",
     "- Built APIs", " 1. Shipped .NET", BulletGlyph \o " 3 services built",
     "Remote work", " "}

InitExperience ==
    /\ NoAnalysis
    /\ \E lines \in LineSeqs(ExperienceLines, MaxLines) :
          frame = [fn |-> "parseExperienceSection", pc |-> "call",
                   text |-> join(lines, "\n"), lines |-> <<>>, index |-> 0,
                   jobs |-> <<>>, currentJob |-> <<>>]

\* if (!experienceText) return []
ReturnNoJobs ==
    /\ frame.pc = "call"
    /\ frame.text = ""
    /\ frame' = [frame EXCEPT !.pc = "done"]
    /\ UNCHANGED analysisVars

\* const lines = experienceText.split('\n').filter(l => l.trim())
FilterLines ==
    /\ frame.pc = "call"
    /\ frame.text # ""
    /\ frame' = [frame EXCEPT !.lines = SelectSeq(split(frame.text, {"\n"}), NonBlank),
                              !.index = 1, !.pc = "forEach"]
    /\ UNCHANGED analysisVars

\* if (isJobTitleLine(trimmed)) { if (currentJob) jobs.push(currentJob); currentJob = ... }
TitleLine ==
    /\ frame.pc = "forEach"
    /\ frame.index <= Len(frame.lines)
    /\ isJobTitleLine(trimmedLine(frame))
    /\ frame' = [frame EXCEPT
            !.jobs = @ \o frame.currentJob,
            !.currentJob = <<[title |-> trimmedLine(frame), bullets |-> <<>>]>>,
            !.index = @ + 1]
    /\ UNCHANGED analysisVars

\* else if (currentJob && isBulletPoint(trimmed)) currentJob.bullets.push(cleanBullet(trimmed))
BulletLine ==
    /\ frame.pc = "forEach"
    /\ frame.index <= Len(frame.lines)
    /\ ~isJobTitleLine(trimmedLine(frame))
    /\ frame.currentJob # <<>>
    /\ isBulletPoint(trimmedLine(frame))
    /\ frame' = [frame EXCEPT
            !.currentJob[1].bullets = Append(@, cleanBullet(trimmedLine(frame))),
            !.index = @ + 1]
    /\ UNCHANGED analysisVars

\* Neither branch is taken: the line is left out.
OtherLine ==
    /\ frame.pc = "forEach"
    /\ frame.index <= Len(frame.lines)
    /\ ~isJobTitleLine(trimmedLine(frame))
    /\ ~(frame.currentJob # <<>> /\ isBulletPoint(trimmedLine(frame)))
    /\ frame' = [frame EXCEPT !.index = @ + 1]
    /\ UNCHANGED analysisVars

\* if (currentJob) jobs.push(currentJob); return jobs
ReturnJobs ==
    /\ frame.pc = "forEach"
    /\ frame.index > Len(frame.lines)
    /\ frame' = [frame EXCEPT !.jobs = @ \o frame.currentJob, !.pc = "done"]
    /\ UNCHANGED analysisVars

NextExperience ==
    \/ ReturnNoJobs
    \/ FilterLines
    \/ TitleLine
    \/ BulletLine
    \/ OtherLine
    \/ ReturnJobs

SpecExperience == InitExperience /\ [][NextExperience]_vars

----------------------------------------------------------------------------
(* The two request handlers of analysis.controller.js *)

\* !value, for a value that is undefined, a string or an uploaded file.
isMissing(value) == value \in {Undefined, ""}

\* The requests: multipart ones with an uploaded file (or none) for analyzeResume,
\* JSON ones with the resume as text (or none) for testAnalyze; the job description
\* is absent, empty or given. req.body is an object, as the body parsers leave it.
Requests(fn) ==
    IF fn = "analyzeResume"
    THEN {[file |-> file, body |-> [jobDescription |-> jd]] :
            file \in {Undefined, "resume.pdf"},
            jd \in {Undefined, "", "Must have Python"}}
    ELSE {[file |-> Undefined, body |-> [resumeText |-> text, jobDescription |-> jd]] :
            text \in {Undefined, "", "Skills\nPython"},
            jd \in {Undefined, "", "Must have Python"}}

\* What the two services do when called: parseResume (resumeParser.service) resolves
\* to the text of the file, which can be empty, or rejects; performATSAnalysis
\* (ats.engine) returns its result or throws. A thrown value is an Error, written
\* as its message.
ParseOutcomes ==
    {[threw |-> FALSE, value |-> ""], [threw |-> FALSE, value |-> "Skills\nPython"],
     [threw |-> TRUE, value |-> "Unsupported file type"]}

\* The result of the analysis is passed on as it is: one value stands for each.
AnalysisOutcomes ==
    {[threw |-> FALSE, value |-> "{ atsScore: 29, ... }"],
     [threw |-> FALSE, value |-> "{ atsScore: 82, ... }"],
     [threw |-> TRUE, value |-> "Cannot read properties of null"]}

\* The resume of the request: req.file, or resumeText of req.body.
resumeOf(fn, req) == IF fn = "analyzeResume" THEN req.file ELSE req.body.resumeText

\* The handler that rejects a request for its resume alone.
rejectionResumeOnly(fn, req) ==
    IF isMissing(resumeOf(fn, req))
    THEN IF fn = "analyzeResume" THEN "Resume file is required"
         ELSE "Resume text is required"
    ELSE Null

\* The two checks at the top of the handler: the message of the 400 response, or null.
rejection(fn, req) ==
    IF isMissing(resumeOf(fn, req))
    THEN IF fn = "analyzeResume" THEN "Resume file is required"
         ELSE "Resume text is required"
    ELSE IF isMissing(req.body.jobDescription) THEN "Job description is required"
    ELSE Null

\* res.status(status).json(body)
sendJson(f, status, body) ==
    [f EXCEPT !.responses = Append(@, [status |-> status, body |-> body])]

InitHandler ==
    /\ NoAnalysis
    /\ \E fn \in {"analyzeResume", "testAnalyze"} :
       \E req \in Requests(fn), parsing \in ParseOutcomes, analysis \in AnalysisOutcomes :
          frame = [fn |-> fn, pc |-> "try", req |-> req, parsing |-> parsing,
                   analysis |-> analysis, resumeText |-> Undefined, result |-> Undefined,
                   err |-> Undefined, calls |-> <<>>, responses |-> <<>>]

\* return res.status(400).json({ success: false, message: ... })
RejectRequest ==
    /\ frame.fn \in {"analyzeResume", "testAnalyze"}
    /\ frame.pc = "try"
    /\ rejection(frame.fn, frame.req) # Null
    /\ frame' = [sendJson(frame, 400, [success |-> FALSE,
                                       message |-> rejection(frame.fn, frame.req)])
                    EXCEPT !.pc = "returned"]
    /\ UNCHANGED analysisVars

\* const resumeText = await parseResume(req.file)
ParseResume ==
    /\ frame.fn = "analyzeResume"
    /\ frame.pc = "try"
    /\ rejection(frame.fn, frame.req) = Null
    /\ frame' = [frame EXCEPT !.calls = Append(@, "parseResume"), !.pc = "await"]
    /\ UNCHANGED analysisVars

\* The promise of parseResume is settled: the handler goes on, or to its catch.
ResumeParsed ==
    /\ frame.fn = "analyzeResume"
    /\ frame.pc = "await"
    /\ frame' = IF frame.parsing.threw
                THEN [frame EXCEPT !.err = frame.parsing.value, !.pc = "catch"]
                ELSE [frame EXCEPT !.resumeText = frame.parsing.value, !.pc = "analyze"]
    /\ UNCHANGED analysisVars

\* const { resumeText, jobDescription } = req.body (testAnalyze), both given
TextGiven ==
    /\ frame.fn = "testAnalyze"
    /\ frame.pc = "try"
    /\ rejection(frame.fn, frame.req) = Null
    /\ frame' = [frame EXCEPT !.resumeText = frame.req.body.resumeText, !.pc = "analyze"]
    /\ UNCHANGED analysisVars

\* const result = performATSAnalysis(resumeText, jobDescription)
Analyze ==
    /\ frame.fn \in {"analyzeResume", "testAnalyze"}
    /\ frame.pc = "analyze"
    /\ frame' = IF frame.analysis.threw
                THEN [frame EXCEPT !.calls = Append(@, "performATSAnalysis"),
                                   !.err = frame.analysis.value, !.pc = "catch"]
                ELSE [frame EXCEPT !.calls = Append(@, "performATSAnalysis"),
                                   !.result = frame.analysis.value, !.pc = "respond"]
    /\ UNCHANGED analysisVars

\* res.json({ success: true, analysis: result })
RespondAnalysis ==
    /\ frame.fn \in {"analyzeResume", "testAnalyze"}
    /\ frame.pc = "respond"
    /\ frame' = [sendJson(frame, 200, [success |-> TRUE, analysis |-> frame.result])
                    EXCEPT !.pc = "returned"]
    /\ UNCHANGED analysisVars

\* catch (err) { res.status(500).json({ success: false, message: err.message }) }
RespondError ==
    /\ frame.fn \in {"analyzeResume", "testAnalyze"}
    /\ frame.pc = "catch"
    /\ frame' = [sendJson(frame, 500, [success |-> FALSE, message |-> frame.err])
                    EXCEPT !.pc = "returned"]
    /\ UNCHANGED analysisVars

NextHandler ==
    \/ RejectRequest
    \/ ParseResume
    \/ ResumeParsed
    \/ TextGiven
    \/ Analyze
    \/ RespondAnalysis
    \/ RespondError

SpecHandler == InitHandler /\ [][NextHandler]_vars

\* Every request is answered: no step of a handler waits for anything but the promise
\* of parseResume, which is settled.
FairHandler == SpecHandler /\ WF_vars(NextHandler)
----------------------------------------------------------------------------
(* Properties *)

\* The records pushed so far, over the three lists.
Classified ==
    Len(matchResults.matches.strongMatch) + Len(matchResults.matches.partialMatch)
        + Len(matchResults.matches.missing)

\* How many records of the three lists are about the JD term t.
TimesListed(t) ==
    Cardinality({i \in 1..Len(matchResults.matches.strongMatch) :
                    matchResults.matches.strongMatch[i].jdTerm = t})
  + Cardinality({i \in 1..Len(matchResults.matches.partialMatch) :
                    matchResults.matches.partialMatch[i].jdTerm = t})
  + Cardinality({i \in 1..Len(matchResults.matches.missing) :
                    matchResults.matches.missing[i].term = t})

Matched == pc \in {"insights", "score", "checklist", "report", "done"}

\* C1: every weighted JD term is pushed to exactly one of strongMatch, partialMatch
\* and missing: after k iterations the three lists hold k records, and once
\* matchResumeToJD has returned every weighted term is listed exactly once, so the
\* three lists of the result have as many entries as there are weighted terms.
C1_EveryTermInOneList ==
    /\ pc \in {"find", "classify"} => Classified = termIdx - 1
    /\ Matched =>
          /\ Classified = Len(jdAnalysis.weightedTerms)
          /\ \A i \in 1..Len(jdAnalysis.weightedTerms) :
                TimesListed(jdAnalysis.weightedTerms[i].term) = 1
    /\ pc = "done" =>
          Len(result.strongMatches) + Len(result.partialMatches) + Len(result.missingSkills)
              = Len(jdAnalysis.weightedTerms)

\* An analysis that ended with a strong match, a partial match and a missing term.
C1_Witness ==
    /\ pc = "done"
    /\ Len(result.strongMatches) = 1
    /\ Len(result.partialMatches) = 1
    /\ Len(result.missingSkills) = 1

\* C2: once the JD yielded at least one weighted term, the score calculateATSScore
\* returns is an integer from 20 to 100, whatever the sizes of the three lists, the
\* sections found and the metrics flag.
C2_ScoreFrom20To100 ==
    (pc = "checklist" /\ Classified >= 1) => scoreSteps.atsScore \in 20..100

\* The lowest score: terms only missing and required, no scored section, no metrics.
C2_Witness ==
    /\ pc = "checklist"
    /\ Classified >= 1
    /\ Len(matchResults.matches.missing) = Classified
    /\ scoreSteps.atsScore < 30

\* The list a term's record was pushed to.
ListOf(t) ==
    IF \E i \in 1..Len(matchResults.matches.strongMatch) :
            matchResults.matches.strongMatch[i].jdTerm = t
    THEN "strong"
    ELSE IF \E i \in 1..Len(matchResults.matches.partialMatch) :
            matchResults.matches.partialMatch[i].jdTerm = t
    THEN "partial"
    ELSE IF \E i \in 1..Len(matchResults.matches.missing) :
            matchResults.matches.missing[i].term = t
    THEN "missing"
    ELSE "none"

\* The term the last iteration classified, once it has.
LastTerm == jdAnalysis.weightedTerms[termIdx - 1].term
JustClassified == pc = "find" /\ termIdx > 1

\* The boundary cases named with the thresholds: 1.0 and 0.65 are strong, 0.649 and
\* 0.45 are partial, 0.449 is missing.
Boundaries ==
    /\ finalMatch.score \in {<<1, 1>>, <<13, 20>>} => ListOf(LastTerm) = "strong"
    /\ finalMatch.score \in {<<649, 1000>>, <<9, 20>>} => ListOf(LastTerm) = "partial"
    /\ finalMatch.score = <<449, 1000>> => ListOf(LastTerm) = "missing"

\* C3: a term whose final best-match score is s is pushed to strongMatch iff
\* s >= 0.65, to partialMatch iff 0.45 <= s < 0.65, and to missing iff s < 0.45;
\* so 1.0 and 0.65 are strong, 0.649 and 0.45 partial, 0.449 missing.
C3_Thresholds ==
    JustClassified =>
        LET n == finalMatch.score[1]
            d == finalMatch.score[2]
        IN  /\ ListOf(LastTerm) = "strong" <=> 100 * n >= 65 * d
            /\ ListOf(LastTerm) = "partial" <=> (100 * n >= 45 * d /\ 100 * n < 65 * d)
            /\ ListOf(LastTerm) = "missing" <=> 100 * n < 45 * d
            /\ Boundaries

\* A score of exactly 0.65 classified as a strong match.
C3_Witness ==
    /\ JustClassified
    /\ finalMatch.score = <<13, 20>>
    /\ ListOf(LastTerm) = "strong"

\* The terms the two extractions returned.
ExtractedTerms == SeqToSet(jdExtracted) \cup SeqToSet(resumeExtracted)

\* C4: normalizeSkill is idempotent: normalizing a term that is already normalized
\* changes nothing, for every extracted term and for every key and value of
\* skillNormalizations.
C4_NormalizeIdempotent ==
    \A x \in ExtractedTerms
            \cup {skillNormalizations[i][1] : i \in 1..Len(skillNormalizations)}
            \cup {skillNormalizations[i][2] : i \in 1..Len(skillNormalizations)} :
        normalizeSkill(normalizeSkill(x)) = normalizeSkill(x)

\* 0.8 x strongCount up to 12, 0.5 x partialCount up to 8, 5 for a skills and an
\* experience section, 3 for metrics.
ExpectedBonus ==
    LET strongCount == Len(matchResults.matches.strongMatch)
        partialCount == Len(matchResults.matches.partialMatch)
        tenths == (IF 8 * strongCount < 120 THEN 8 * strongCount ELSE 120)
                + (IF 5 * partialCount < 80 THEN 5 * partialCount ELSE 80)
                + (IF Truthy(matchResults.sections, "skills")
                      /\ Truthy(matchResults.sections, "experience")
                   THEN 50 ELSE 0)
                + (IF matchResults.resumeMetrics.hasMetrics THEN 30 ELSE 0)
    IN  Rat(tenths, 10)

\* 0.55, 0.18, 0.10, 0.10 and 0.07 of the five sub-scores.
ExpectedWeightedSum ==
    LET hundredths(x, w) == Rat(w * x[1], 100 * x[2])
    IN  RAdd(hundredths(calculateSkillMatchScore(matchResults), 55),
        RAdd(hundredths(calculateRequiredMatchScore(matchResults), 18),
        RAdd(hundredths(calculateDemonstrationScore(matchResults), 10),
        RAdd(hundredths(calculateStructureScore(matchResults), 10),
             hundredths(IF matchResults.resumeMetrics.hasMetrics THEN <<1, 1>> ELSE <<0, 1>>,
                        7)))))

\* C5: the score is the weighted sum of the five sub-scores (0.55, 0.18, 0.10, 0.10,
\* 0.07), times 100, times 1.4, raised to 20 if lower, then increased by the bonuses,
\* then capped at 100 and rounded: the bonuses are added after the floor.
C5_ScoreOrder ==
    pc = "checklist" =>
        LET adjusted == Rat(140 * ExpectedWeightedSum[1], ExpectedWeightedSum[2])
            floored == IF RLt(adjusted, <<20, 1>>) THEN <<20, 1>> ELSE adjusted
            bonused == RAdd(floored, ExpectedBonus)
        IN  /\ scoreSteps.finalScore = ExpectedWeightedSum
            /\ scoreSteps.adjusted = adjusted
            /\ scoreSteps.floored = floored
            /\ scoreSteps.bonused = bonused
            /\ scoreSteps.atsScore =
                    MathRound(IF RLt(bonused, <<100, 1>>) THEN bonused ELSE <<100, 1>>)
            /\ scoreSteps.atsScore \in 0..100

\* A score below the cap that all four bonuses, one of them capped, went into.
C5_Witness ==
    /\ pc = "checklist"
    /\ Len(matchResults.matches.strongMatch) = SaturatingCount
    /\ Len(matchResults.matches.partialMatch) > 0
    /\ Truthy(matchResults.sections, "skills")
    /\ Truthy(matchResults.sections, "experience")
    /\ matchResults.resumeMetrics.hasMetrics
    /\ scoreSteps.atsScore < 100

\* The class the context of a term calls for: a requirement indicator within 100
\* characters of the term's first occurrence makes it required, else a preference
\* indicator there makes it preferred, else it is required by default.
ContextClass(text, term) ==
    LET lowerText == toLowerCase(text)
        at == indexOf(lowerText, toLowerCase(term))
        context == IF at = -1 THEN ""
                   ELSE Sub(lowerText, at + 1 - 100, at + Len(term) + 100)
    IN  IF \E indicator \in {"required", "must have", "mandatory", "essential",
                              "must be", "need to"} : includes(context, indicator)
        THEN "required"
        ELSE IF \E indicator \in {"preferred", "nice to have", "bonus", "plus",
                                   "desired", "ideal"} : includes(context, indicator)
        THEN "preferred"
        ELSE "required"

Analyzed == pc # "analyze"

\* The importance the result reports for the JD term t, in whichever list it is.
ReportedImportance(t) ==
    {result.strongMatches[i].importance :
        i \in {k \in 1..Len(result.strongMatches) : result.strongMatches[k].skill = t}}
    \cup {result.partialMatches[i].importance :
        i \in {k \in 1..Len(result.partialMatches) : result.partialMatches[k].skill = t}}
    \cup {result.missingSkills[i].importance :
        i \in {k \in 1..Len(result.missingSkills) : result.missingSkills[k].skill = t}}

\* C6: every weighted term is required when its context calls for required (by an
\* indicator or by default) and preferred when its context calls for preferred, so
\* each has isRequired or isPreferred set, and a term reported with importance
\* "preferred" was classified preferred.
C6_ClassifiedByContext ==
    /\ Analyzed =>
          \A i \in 1..Len(jdAnalysis.weightedTerms) :
             LET t == jdAnalysis.weightedTerms[i]
             IN  /\ t.isRequired \/ t.isPreferred
                 /\ ContextClass(jdText, t.originalTerm) = "required" => t.isRequired
                 /\ ContextClass(jdText, t.originalTerm) = "preferred" => t.isPreferred
    /\ pc = "done" =>
          \A i \in 1..Len(jdAnalysis.weightedTerms) :
             LET t == jdAnalysis.weightedTerms[i]
             IN  "preferred" \in ReportedImportance(t.term) => t.isPreferred

\* C7: no weighted term is both required and preferred, and its weight is its base
\* weight times 3 if required, else times 1.5 if preferred, times 1.3 if it occurs
\* more than twice, times 0.3 if it is a generic word.
C7_OneBoost ==
    Analyzed =>
        \A i \in 1..Len(jdAnalysis.weightedTerms) :
           LET t == jdAnalysis.weightedTerms[i]
               base == tfidfOrDefault(jdText, toLowerCase(t.originalTerm))
               class == IF t.isRequired THEN <<3, 1>>
                        ELSE IF t.isPreferred THEN <<3, 2>> ELSE <<1, 1>>
               often == IF t.frequency > 2 THEN <<13, 10>> ELSE <<1, 1>>
               generic == IF isGenericWord(t.originalTerm) THEN <<3, 10>> ELSE <<1, 1>>
           IN  /\ ~(t.isRequired /\ t.isPreferred)
               /\ t.weight = RMul(RMul(RMul(base, class), often), generic)

\* The entries of the result about the skill, over its three lists.
Reported(skill) ==
    {result.strongMatches[i] :
        i \in {k \in 1..Len(result.strongMatches) : result.strongMatches[k].skill = skill}}
    \cup {result.partialMatches[i] :
        i \in {k \in 1..Len(result.partialMatches) : result.partialMatches[k].skill = skill}}
    \cup {result.missingSkills[i] :
        i \in {k \in 1..Len(result.missingSkills) : result.missingSkills[k].skill = skill}}

ScenarioA ==
    /\ pc = "done"
    /\ jdText = JD_A
    /\ resumeText = R_A
    /\ SeqToSet(jdExtracted) = {"python", "aws"}
    /\ SeqToSet(resumeExtracted) = {"python", "aws"}

\* C8: in scenario A Python is a strong match of importance "required", found in
\* the skills section and demonstrated, and AWS is reported with importance
\* "preferred".
C8_ScenarioA ==
    ScenarioA =>
        /\ \E i \in 1..Len(result.strongMatches) :
              /\ result.strongMatches[i].skill = "python"
              /\ result.strongMatches[i].importance = "required"
              /\ result.strongMatches[i].inSkillsSection
              /\ result.strongMatches[i].demonstrated
        /\ Reported(normalizeSkill("AWS")) # {}
        /\ \A r \in Reported(normalizeSkill("AWS")) : r.importance = "preferred"

\* What scenario A does give: Python as the claim has it, AWS a required strong match.
ScenarioA_Python ==
    ScenarioA =>
        /\ \E i \in 1..Len(result.strongMatches) :
              /\ result.strongMatches[i].skill = "python"
              /\ result.strongMatches[i].importance = "required"
              /\ result.strongMatches[i].inSkillsSection
              /\ result.strongMatches[i].demonstrated
        /\ \A r \in Reported(normalizeSkill("AWS")) : r.importance = "required"

ScenarioC ==
    /\ Matched
    /\ \E i \in 1..Len(jdAnalysis.weightedTerms) :
          jdAnalysis.weightedTerms[i].term = normalizeSkill("Kubernetes")
    /\ \E i \in 1..Len(allResumeTerms) : allResumeTerms[i] = "kuberntes"

\* C9: in scenario C the JD term Kubernetes is a strong or a partial match of the
\* resume term kuberntes, and its record has typoCorrection true.
C9_ScenarioC ==
    ScenarioC =>
        \/ \E i \in 1..Len(matchResults.matches.strongMatch) :
              /\ matchResults.matches.strongMatch[i].jdTerm = normalizeSkill("Kubernetes")
              /\ matchResults.matches.strongMatch[i].typoCorrection
        \/ \E i \in 1..Len(matchResults.matches.partialMatch) :
              /\ matchResults.matches.partialMatch[i].jdTerm = normalizeSkill("Kubernetes")
              /\ matchResults.matches.partialMatch[i].typoCorrection

\* What scenario C does give: a strong match on kuberntes, not flagged.
ScenarioC_Matched ==
    ScenarioC =>
        \E i \in 1..Len(matchResults.matches.strongMatch) :
           /\ matchResults.matches.strongMatch[i].jdTerm = "kubernetes"
           /\ matchResults.matches.strongMatch[i].resumeTerm = "kuberntes"
           /\ ~matchResults.matches.strongMatch[i].typoCorrection

\* A non-empty resume in which detectSections finds at most one section.
Unstructured == resumeText # "" /\ Len(detectSections(resumeText).keys) <= 1

\* C10: for a non-empty resume with at most one detected section the whole text
\* stands in for the skills and the experience section, the result reports both
\* sections as present, and atsScore is an integer from 0 to 100.
C10_Fallback ==
    /\ (pc \notin {"analyze", "sections"} /\ Unstructured) =>
          /\ HasOwn(matchResults.sections, "skills")
          /\ HasOwn(matchResults.sections, "experience")
          /\ Get(matchResults.sections, "skills") = resumeText
          /\ Get(matchResults.sections, "experience") = resumeText
    /\ (pc = "done" /\ Unstructured) =>
          /\ result.sectionFeedback.hasSkillsSection
          /\ result.sectionFeedback.hasExperienceSection
          /\ result.atsScore \in 0..100

\* The analysis of the one-paragraph resume, reported with both sections.
C10_Witness ==
    /\ pc = "done"
    /\ resumeText = R_B
    /\ detectSections(resumeText).keys = <<"header">>
    /\ result.sectionFeedback.hasSkillsSection
    /\ result.sectionFeedback.hasExperienceSection
    /\ result.sectionFeedback.sections = <<"header", "experience", "skills">>


\* The insights of the result in the given category.
InsightsIn(category) ==
    {i \in 1..Len(result.insights) : result.insights[i].category = category}

\* The text matchResumeToJD hands to hasQuantifiableMetrics.
ExperienceContent ==
    IF Truthy(matchResults.sections, "experience")
    THEN Get(matchResults.sections, "experience") ELSE ""

\* A percentage (digits and %) or an improvement ("by" and digits) in the text.
HasPercentOrBy(text) ==
    \/ \E i \in 1..Len(text) : IsDigit(CharAt(text, i)) /\ CharAt(text, i + 1) = "%"
    \/ \E i \in 1..Len(text) :
          /\ toLowerCase(Sub(text, i, i + 2)) = "by "
          /\ IsDigit(CharAt(text, i + 3))

\* C11: the result holds exactly one missing_metrics insight when
\* sectionFeedback.hasMetrics is false and none when it is true, and hasMetrics is
\* true whenever the experience content holds a percentage or a "by <number>".
C11_MissingMetrics ==
    pc = "done" =>
        /\ Cardinality(InsightsIn("missing_metrics"))
              = IF result.sectionFeedback.hasMetrics THEN 0 ELSE 1
        /\ HasPercentOrBy(ExperienceContent) => result.sectionFeedback.hasMetrics

\* Scenario D: the experience content says "by 40%", and no insight asks for metrics.
C11_Witness ==
    /\ pc = "done"
    /\ includes(ExperienceContent, "by 40%")
    /\ result.sectionFeedback.hasMetrics
    /\ InsightsIn("missing_metrics") = {}

\* The other side: no metrics, and the one insight that asks for them, priority high.
C11_WithoutMetrics ==
    /\ pc = "done"
    /\ resumeText = R_A
    /\ ~result.sectionFeedback.hasMetrics
    /\ \E i \in InsightsIn("missing_metrics") :
          /\ result.insights[i].type = "improvement"
          /\ result.insights[i].priority = "high"

\* The first term, in extraction order, whose normalized form is the given one.
FirstExtractedAs(normalized) ==
    jdAnalysis.allTerms[
        MinOfSet({i \in 1..Len(jdAnalysis.allTerms) :
                     normalizeSkill(jdAnalysis.allTerms[i]) = normalized})]

\* C12: the weightedTerms of analyzeJobDescription hold each normalized form at
\* most once (and every normalized form of the kept terms), the record kept for a
\* form is the one of the first term extracted with that form, and the weights do
\* not increase along the list.
C12_UniqueFirstSorted ==
    Analyzed =>
        /\ \A i, j \in 1..Len(jdAnalysis.weightedTerms) :
              i # j => jdAnalysis.weightedTerms[i].term # jdAnalysis.weightedTerms[j].term
        /\ {jdAnalysis.weightedTerms[i].term : i \in 1..Len(jdAnalysis.weightedTerms)}
              = {normalizeSkill(jdAnalysis.allTerms[i]) : i \in 1..Len(jdAnalysis.allTerms)}
        /\ \A i \in 1..Len(jdAnalysis.weightedTerms) :
              jdAnalysis.weightedTerms[i].originalTerm
                  = FirstExtractedAs(jdAnalysis.weightedTerms[i].term)
        /\ \A i, j \in 1..Len(jdAnalysis.weightedTerms) :
              i < j => RGeq(jdAnalysis.weightedTerms[i].weight,
                            jdAnalysis.weightedTerms[j].weight)

\* Two extracted terms with one normalized form: the record of the first is kept.
C12_Witness ==
    /\ Analyzed
    /\ jdExtracted = <<"postgresql", "postgres">>
    /\ Len(jdAnalysis.weightedTerms) = 1
    /\ jdAnalysis.weightedTerms[1].originalTerm = "postgresql"

\* Three terms of which the sort moved the first behind a heavier one.
C12_Reordered ==
    /\ Analyzed
    /\ Len(jdAnalysis.weightedTerms) = 3
    /\ jdAnalysis.weightedTerms[1].originalTerm # jdAnalysis.allTerms[1]
    /\ RGt(jdAnalysis.weightedTerms[1].weight, jdAnalysis.weightedTerms[3].weight)

\* The records of a list that carry isRequired.
RequiredIn(arr) == Cardinality({i \in 1..Len(arr) : arr[i].isRequired})

RequiredStrong == RequiredIn(matchResults.matches.strongMatch)
RequiredPartial == RequiredIn(matchResults.matches.partialMatch)
TotalRequired == RequiredStrong + RequiredPartial + RequiredIn(matchResults.matches.missing)

\* clamp(lo, hi, x)
Clamp(lo, hi, x) == RMin(hi, RMax(lo, x))

\* Equality of two rationals
SameNumber(x, y) == RGeq(x, y) /\ RLeq(x, y)

\* C13: requiredMatch is 1.0 when none of the strong, partial and missing records
\* is required, and clamp(0.25, 1.0, (requiredStrong + 0.75 * requiredPartial) /
\* totalRequired) otherwise; it always lies between 0.25 and 1.0.
C13_RequiredMatch ==
    pc = "checklist" =>
        /\ TotalRequired = 0 => SameNumber(scoreSteps.requiredMatch, RInt(1))
        /\ TotalRequired > 0 =>
              SameNumber(scoreSteps.requiredMatch,
                         Clamp(Rat(1, 4), RInt(1),
                               Rat(4 * RequiredStrong + 3 * RequiredPartial,
                                   4 * TotalRequired)))
        /\ RGeq(scoreSteps.requiredMatch, Rat(1, 4))
        /\ RLeq(scoreSteps.requiredMatch, RInt(1))

\* Terms in all three lists, none of them required: full credit.
C13_Witness ==
    /\ pc = "checklist"
    /\ Len(matchResults.matches.strongMatch) > 0
    /\ Len(matchResults.matches.partialMatch) > 0
    /\ Len(matchResults.matches.missing) > 0
    /\ TotalRequired = 0
    /\ scoreSteps.requiredMatch = RInt(1)

\* The floor at work: required terms, all of them missing.
C13_AtFloor ==
    /\ pc = "checklist"
    /\ TotalRequired > 0
    /\ RequiredStrong + RequiredPartial = 0
    /\ scoreSteps.requiredMatch = Rat(1, 4)

\* Between the floor and full credit: one required partial match.
C13_Between ==
    /\ pc = "checklist"
    /\ TotalRequired = 1
    /\ RequiredPartial = 1
    /\ scoreSteps.requiredMatch = Rat(3, 4)

\* The insights exist from here on.
Generated == pc \in {"score", "checklist", "report", "done"}

\* The rule of generateInsights that pushes insights of a category.
RuleOf(category) ==
    CASE category = "missing_skill" -> 1
      [] category = "undemonstr ated_skill" -> 2
      [] category = "missing_metrics" -> 3
      [] category \in {"section_order", "missing_section"} -> 4
      [] category = "weak_verbs" -> 5
      [] category = "partial_match" -> 6
      [] category = "sparse_skills" -> 7

Rank(priority) == CASE priority = "high" -> 0 [] priority = "medium" -> 1 [] priority = "low" -> 2

\* The insights of one priority, in the order of the list.
WithPriority(list, priority) == SelectSeq(list, LAMBDA i : i.priority = priority)

\* C14: the insights are ordered high, then medium, then low, and the insights of
\* one priority stand in the order in which the rules 1..7 pushed them.
C14_PriorityOrder ==
    Generated =>
        /\ \A i, j \in 1..Len(insights) :
              i < j => Rank(insights[i].priority) <= Rank(insights[j].priority)
        /\ \A i, j \in 1..Len(insights) :
              (i < j /\ insights[i].priority = insights[j].priority)
                  => RuleOf(insights[i].category) <= RuleOf(insights[j].category)
        /\ \A p \in {"high", "medium", "low"} :
              WithPriority(insights, p)
                  = WithPriority(emittedInsights(matchResults, verbsExtracted), p)

\* A sort that moved something: two rules of priority high with a medium insight
\* pushed between them.
C14_Witness ==
    /\ Generated
    /\ insights # emittedInsights(matchResults, verbsExtracted)
    /\ \E i, j, k \in 1..Len(insights) :
          /\ i < j /\ j < k
          /\ insights[i].category = "missing_skill"
          /\ insights[j].category = "missing_metrics"
          /\ insights[k].priority = "medium"

\* The insights about the JD term of a strong match that have the given type,
\* category and priority.
InsightsAbout(term, type, category, priority) ==
    {i \in 1..Len(insights) :
        /\ insights[i].type = type
        /\ insights[i].category = category
        /\ insights[i].priority = priority
        /\ startsWith(insights[i].message, "\"" \o term \o "\" ")}

\* A strong match listed in the skills section and absent from the experience.
Undemonstrated(m) == m.inSkillsSection /\ ~m.inExperience

\* C15: every strong match with inSkillsSection true and inExperience false yields
\* exactly one insight of type "warning", category "undemonstrated_skill" and
\* priority "medium", and no other strong match yields one.
C15_UndemonstratedSkill ==
    Generated =>
        \A k \in 1..Len(matchResults.matches.strongMatch) :
            Cardinality(InsightsAbout(matchResults.matches.strongMatch[k].jdTerm,
                                      "warning", "undemonstrated_skill", "medium"))
                = IF Undemonstrated(matchResults.matches.strongMatch[k]) THEN 1 ELSE 0

\* What the code does give: the same, under the category as api.js:356 spells it.
C15_AsSpelled ==
    Generated =>
        \A k \in 1..Len(matchResults.matches.strongMatch) :
            Cardinality(InsightsAbout(matchResults.matches.strongMatch[k].jdTerm,
                                      "warning", "undemonstr ated_skill", "medium"))
                = IF Undemonstrated(matchResults.matches.strongMatch[k]) THEN 1 ELSE 0

\* A strong match listed in skills and not demonstrated, with its insight.
C15_AsSpelledWitness ==
    /\ Generated
    /\ \E k \in 1..Len(matchResults.matches.strongMatch) :
          /\ Undemonstrated(matchResults.matches.strongMatch[k])
          /\ InsightsAbout(matchResults.matches.strongMatch[k].jdTerm,
                           "warning", "undemonstr ated_skill", "medium") # {}

\* The insights generateInsights made of one feedback item of analyzeSectionOrder,
\* with the given priority.
InsightsOf(feedback, priority) ==
    {i \in 1..Len(insights) :
        /\ insights[i].type = "optimization"
        /\ insights[i].category = feedback.type
        /\ insights[i].message = feedback.message
        /\ insights[i].priority = priority}

\* The items of the checklist section of the given priority (none if it is absent).
ChecklistItems(priority) ==
    UNION {SeqToSet(checklist[k].items) :
              k \in {n \in 1..Len(checklist) : checklist[n].priority = priority}}

SectionOrderSuggestion ==
    "Reorder sections to: Summary -> Skills -> Experience -> Education -> Projects"

\* C16: each feedback item of analyzeSectionOrder yields one "optimization" insight
\* whose priority is the item's severity, so that for a resume without a summary
\* section the suggestion is listed in the optional section of the checklist.
C16_SeverityToPriority ==
    /\ Generated =>
          \A k \in 1..Len(analyzeSectionOrder(matchResults.sections)) :
              Cardinality(InsightsOf(analyzeSectionOrder(matchResults.sections)[k],
                                     analyzeSectionOrder(matchResults.sections)[k].severity))
                  = 1
    /\ (pc \in {"report", "done"} /\ ~HasOwn(matchResults.sections, "summary")) =>
          SectionOrderSuggestion \in ChecklistItems("optional")

\* What the code does give: one insight per item, priority medium whatever the
\* severity (none of the items has severity high), listed in the important section.
C16_AsCoded ==
    /\ Generated =>
          \A k \in 1..Len(analyzeSectionOrder(matchResults.sections)) :
              Cardinality(InsightsOf(analyzeSectionOrder(matchResults.sections)[k], "medium"))
                  = 1
    /\ (pc \in {"report", "done"} /\ ~HasOwn(matchResults.sections, "summary")) =>
          /\ SectionOrderSuggestion \in ChecklistItems("important")
          /\ ChecklistItems("optional") = {}

\* Skills two sections behind experience and no summary: both items, both medium.
C16_BothItems ==
    /\ pc = "done"
    /\ resumeText = R_O
    /\ Len(analyzeSectionOrder(matchResults.sections)) = 2
    /\ \E i, j \in 1..Len(insights) :
          /\ i < j
          /\ insights[i].category = "section_order" /\ insights[i].priority = "medium"
          /\ insights[j].category = "missing_section" /\ insights[j].priority = "medium"

\* The checklist exists from here on.
Listed == pc \in {"report", "done"}

\* The priority of the insights a checklist section collects.
PriorityOf(section) ==
    CASE section = "critical" -> "high"
      [] section = "important" -> "medium"
      [] section = "optional" -> "low"

\* The suggestions of the insights of one priority, in the order of the list.
SuggestionsOf(priority) ==
    [k \in 1..Len(WithPriority(insights, priority)) |->
        WithPriority(insights, priority)[k].suggestion]

\* The sum of the lengths of the item lists.
RECURSIVE ItemCount(_)
ItemCount(sections) ==
    IF sections = <<>> THEN 0 ELSE Len(Head(sections).items) + ItemCount(Tail(sections))

\* C17: the checklist has at most three sections, in the order critical, important,
\* optional; a section is there exactly when an insight has its priority (high,
\* medium, low), its items are the suggestions of those insights in the order of
\* the insight list, and the items are as many as the insights.
C17_Checklist ==
    Listed =>
        /\ Len(checklist) <= 3
        /\ \A i \in 1..Len(checklist) :
              checklist[i].priority \in {"critical", "important", "optional"}
        /\ \A i, j \in 1..Len(checklist) :
              i < j => Rank(PriorityOf(checklist[i].priority))
                          < Rank(PriorityOf(checklist[j].priority))
        /\ \A section \in {"critical", "important", "optional"} :
              (\E i \in 1..Len(checklist) : checklist[i].priority = section)
                  <=> (\E k \in 1..Len(insights) : insights[k].priority = PriorityOf(section))
        /\ \A i \in 1..Len(checklist) :
              checklist[i].items = SuggestionsOf(PriorityOf(checklist[i].priority))
        /\ ItemCount(checklist) = Len(insights)

\* Insights of all three priorities, two of them high: three sections.
C17_Witness ==
    /\ Listed
    /\ Len(checklist) = 3
    /\ Len(checklist[1].items) = 2
    /\ checklist[3].priority = "optional"

\* A list without medium insights: the important section is left out.
C17_SectionOmitted ==
    /\ Listed
    /\ Len(insights) = 3
    /\ Len(checklist) = 2
    /\ checklist[1].priority = "critical"
    /\ checklist[2].priority = "optional"

\* The call has returned.
Returned == pc = "done"

\* The inputs that carry no data: an empty text, no term extracted from a text, no
\* section found in the resume.
AbsentData ==
    \/ jdText = ""
    \/ resumeText = ""
    \/ jdExtracted = <<>>
    \/ resumeExtracted = <<>>
    \/ Len(detectSections(resumeText).keys) <= 1

\* An array, empty or not.
IsArray(a) == DOMAIN a = 1..Len(a)

ResultFields ==
    {"atsScore", "strongMatches", "partialMatches", "missingSkills", "sectionFeedback",
     "insights", "checklist"}

\* C18: performATSAnalysis does not throw when data is absent (empty resume or job
\* description, no job description terms, no resume terms, no detected sections):
\* it returns a result with atsScore, strongMatches, partialMatches, missingSkills,
\* sectionFeedback, insights and checklist, the collections being arrays (empty when
\* there is nothing to list), and atsScore an integer from 0 to 100.
C18_NoThrowOnAbsentData ==
    AbsentData =>
        /\ pc # "threw"
        /\ Returned =>
              /\ DOMAIN result = ResultFields
              /\ \A f \in {"strongMatches", "partialMatches", "missingSkills",
                           "insights", "checklist"} : IsArray(result[f])
              /\ IsArray(result.sectionFeedback.sections)
              /\ result.atsScore \in 0..100

\* Both texts empty: no match of any kind, no section, and still a score.
C18_Witness ==
    /\ Returned
    /\ jdText = ""
    /\ resumeText = ""
    /\ result.strongMatches = <<>>
    /\ result.partialMatches = <<>>
    /\ result.missingSkills = <<>>
    /\ result.sectionFeedback.sections = <<"experience", "skills">>
    /\ result.atsScore \in 0..100

\* A job description with terms against a resume with sections and bullets from
\* which no term was extracted: every term is looked up in an empty list.
C18_NoResumeTerms ==
    /\ Returned
    /\ resumeText = R_A
    /\ allResumeTerms = <<>>
    /\ Len(jdAnalysis.weightedTerms) > 0
    /\ Len(result.missingSkills) = Len(jdAnalysis.weightedTerms)

\* Terms in the resume, none in the job description, and no section in the resume.
C18_NoJdTerms ==
    /\ Returned
    /\ jdAnalysis.weightedTerms = <<>>
    /\ allResumeTerms # <<>>
    /\ resumeText = R_B
    /\ result.missingSkills = <<>>

\* The calls that have returned, in the interleaved analyses.
Finished == {p \in DOMAIN runs : runs[p].pc = "done"}

C19_Interleaved ==
    /\ runs # <<>>
    /\ runs["a"].pc = "insights"
    /\ runs["b"].pc = "score"
    /\ runs["a"].input # runs["b"].input
    /\ runs["a"].matchResults # runs["b"].matchResults

\* The same two texts.
SameTexts(i1, i2) == i1.resumeText = i2.resumeText /\ i1.jdText = i2.jdText

\* The parts of a result the determinism statement names.
SameResult(r1, r2) ==
    /\ r1.atsScore = r2.atsScore
    /\ r1.strongMatches = r2.strongMatches
    /\ r1.partialMatches = r2.partialMatches
    /\ r1.missingSkills = r2.missingSkills
    /\ r1.insights = r2.insights
    /\ r1.checklist = r2.checklist
    /\ r1 = r2

\* The callers whose call before the current one has returned.
CalledBefore == {p \in DOMAIN runs : runs[p].calls > 1}

C20_AfterOtherTexts ==
    /\ Finished = Procs
    /\ "a" \in CalledBefore
    /\ ~SameTexts(runs["a"].input, runs["a"].previous.input)
    /\ SameTexts(runs["a"].input, runs["b"].input)
    /\ runs["a"].startedAt # runs["b"].startedAt
    /\ runs["a"].result = runs["b"].result

\* detectSections is at a line of its forEach.
AtLine == frame.fn = "detectSections" /\ frame.pc = "forEach" /\ frame.index <= Len(frame.lines)

\* detectSections has returned.
SectionsReturned == frame.fn = "detectSections" /\ frame.pc = "done"

\* The lines of a section's content.
ContentLines(sections, name) == split(Get(sections, name), {"\n"})

\* What the accumulated lines are flushed to.
Flushed(f) ==
    IF f.currentContent = <<>> THEN f.sections
    ELSE SetKey(f.sections, f.currentSection, join(f.currentContent, "\n"))

\* One line read by the state machine.
SectionStep ==
    /\ AtLine /\ trimmedLine(frame) # "" /\ detectSectionHeader(trimmedLine(frame)) # Null
          => /\ frame'.currentSection = detectSectionHeader(trimmedLine(frame))
             /\ frame'.currentContent = <<>>
             /\ frame'.sections = Flushed(frame)
    /\ AtLine /\ trimmedLine(frame) # "" /\ detectSectionHeader(trimmedLine(frame)) = Null
          => /\ frame'.currentSection = frame.currentSection
             /\ frame'.currentContent = Append(frame.currentContent, trimmedLine(frame))
             /\ frame'.sections = frame.sections
    /\ AtLine /\ trimmedLine(frame) = ""
          => /\ frame'.currentSection = frame.currentSection
             /\ frame'.currentContent = frame.currentContent
             /\ frame'.sections = frame.sections
    /\ frame.fn = "detectSections" /\ frame.pc = "forEach" /\ ~AtLine
          => frame'.sections = Flushed(frame) /\ frame'.pc = "done"
    /\ frame.fn = "detectSections" /\ frame.currentSection # "header"
          => frame'.currentSection # "header"

\* What holds of the state machine at every line and of what it returns.
SectionState ==
    frame.fn = "detectSections" =>
        /\ frame.pc = "call" => frame.currentSection = "header" /\ frame.currentContent = <<>>
        /\ \A i \in 1..Len(frame.currentContent) :
              detectSectionHeader(frame.currentContent[i]) = Null
        /\ \A k \in 1..Len(frame.sections.keys) :
              /\ frame.sections.val[k] # ""
              /\ \A i \in 1..Len(ContentLines(frame.sections, frame.sections.keys[k])) :
                    detectSectionHeader(
                        ContentLines(frame.sections, frame.sections.keys[k])[i]) = Null
        /\ SectionsReturned => frame.sections = detectSections(frame.text)

\* C21: detectSections is a state machine over the non-empty lines, with state
\* currentSection, at first "header": a header line makes the detected section
\* current and flushes the accumulated lines to the section that was current; any
\* other line is appended to the current section; the end of the input flushes the
\* last section.  No header line is in a content, no section without content lines
\* is in the result, and after a header the state is never "header" again.
C21_SectionMachine == []SectionState /\ [][SectionStep]_vars

\* A header followed by another header is not in the result; the lines after the
\* second header are.
C21_Witness ==
    /\ SectionsReturned
    /\ frame.lines = <<"Skills", "Experience:", "- Built APIs", " ">>
    /\ frame.sections.keys = <<"experience">>
    /\ frame.sections.val = <<"- Built APIs">>

\* The section that is current when line i of the lines is read: the section of the
\* nearest header line before it, "header" if there is none.
RECURSIVE SectionAt(_, _)
SectionAt(lines, i) ==
    IF i <= 1 THEN "header"
    ELSE IF trim(lines[i - 1]) # "" /\ detectSectionHeader(trim(lines[i - 1])) # Null
         THEN detectSectionHeader(trim(lines[i - 1]))
         ELSE SectionAt(lines, i - 1)

\* The positions of the non-empty lines that are no headers.
ContentPositions(lines) ==
    {i \in 1..Len(lines) : trim(lines[i]) # "" /\ detectSectionHeader(trim(lines[i])) = Null}

\* The content lines read while the section was current, in the order of the input.
RECURSIVE LinesReadIn(_, _, _)
LinesReadIn(lines, name, i) ==
    IF i > Len(lines) THEN <<>>
    ELSE IF i \in ContentPositions(lines) /\ SectionAt(lines, i) = name
         THEN <<trim(lines[i])>> \o LinesReadIn(lines, name, i + 1)
         ELSE LinesReadIn(lines, name, i + 1)

\* The sections some content line was read in.
SectionsRead(lines) == {SectionAt(lines, i) : i \in ContentPositions(lines)}

\* C22: detectSections loses no content: every non-empty line that is no header is
\* in the content of exactly one section of the returned map, the section that was
\* current when the line was read, also when a section is opened more than once.
C22_NoContentLost ==
    SectionsReturned /\ frame.text # "" =>
        /\ SeqToSet(frame.sections.keys) = SectionsRead(frame.lines)
        /\ \A name \in SectionsRead(frame.lines) :
              ContentLines(frame.sections, name) = LinesReadIn(frame.lines, name, 1)

\* The positions of the header lines, and 0 for the start of the text.
Openings(lines) ==
    {0} \cup {i \in 1..Len(lines) :
                 trim(lines[i]) # "" /\ detectSectionHeader(trim(lines[i])) # Null}

\* The section an opening opens.
Opened(lines, h) == IF h = 0 THEN "header" ELSE detectSectionHeader(trim(lines[h]))

\* The content lines from position i up to the next header line.
RECURSIVE ContentFrom(_, _)
ContentFrom(lines, i) ==
    IF i > Len(lines) \/ i \in Openings(lines) THEN <<>>
    ELSE IF trim(lines[i]) = "" THEN ContentFrom(lines, i + 1)
    ELSE <<trim(lines[i])>> \o ContentFrom(lines, i + 1)

\* The last opening of a section that has content lines after it.
LastOpening(lines, name) ==
    MaxOfSet({h \in Openings(lines) :
                 Opened(lines, h) = name /\ ContentFrom(lines, h + 1) # <<>>})

\* What the code does: the content of a section is what followed its last header
\* that had content after it; what was read under an earlier one is overwritten.
C22_AsCoded ==
    SectionsReturned /\ frame.text # "" =>
        /\ SeqToSet(frame.sections.keys) = SectionsRead(frame.lines)
        /\ \A name \in SectionsRead(frame.lines) :
              ContentLines(frame.sections, name)
                  = ContentFrom(frame.lines, LastOpening(frame.lines, name) + 1)

\* A section opened twice, with a line after each header: the first line is gone.
C22_Overwritten ==
    /\ SectionsReturned
    /\ frame.lines = <<"Skills", " Python, AWS", "My Skills", "- Built APIs">>
    /\ frame.sections.keys = <<"skills">>
    /\ frame.sections.val = <<"- Built APIs">>

\* The lookups of the iteration are done.
LookedUp == pc = "classify"

\* The term looked up.
Target == jdAnalysis.weightedTerms[termIdx].term

\* Dice's coefficient over the character pairs of two strings without whitespace.
Dice(a, b) == compareTwoStrings(a, b)

\* 1 - editDistance / max(len_a, len_b)
EditSimilarity(a, b) ==
    RAdd(RInt(1), Rat(-levenshteinDistance(a, b), Max(Len(a), Len(b))))

\* The score of one candidate against the corrected target.
CandidateScore(corrected, candidate) ==
    IF toLowerCase(corrected) = toLowerCase(candidate) THEN RInt(1)
    ELSE RMax(Dice(toLowerCase(corrected), toLowerCase(candidate)),
              EditSimilarity(toLowerCase(corrected), toLowerCase(candidate)))

\* The candidates no other candidate scores higher than.
Best(corrected, candidates) ==
    {i \in 1..Len(candidates) :
        \A j \in 1..Len(candidates) :
            RGeq(CandidateScore(corrected, candidates[i]),
                 CandidateScore(corrected, candidates[j]))}

\* C23: for a non-empty candidate list findBestMatchWithTypoTolerance returns as
\* score the maximum over the candidates of 1.0 if the autocorrected lower-cased
\* target equals the lower-cased candidate, else max(Dice, 1 - editDistance /
\* max(len_a, len_b)); the score is in [0, 1]; match is the earliest candidate with
\* that score if the score is at least the threshold, else null; corrected tells
\* whether autocorrect changed the target; an empty list gives {null, 0, false}.
C23_TypoTolerantBest ==
    LookedUp =>
        IF allResumeTerms = <<>>
        THEN bestMatch = [match |-> Null, score |-> RInt(0), corrected |-> FALSE]
        ELSE /\ SameNumber(bestMatch.score,
                           CandidateScore(autocorrectSkill(Target),
                                          allResumeTerms[MinOfSet(Best(autocorrectSkill(Target),
                                                                       allResumeTerms))]))
             /\ RGeq(bestMatch.score, RInt(0)) /\ RLeq(bestMatch.score, RInt(1))
             /\ bestMatch.match =
                    IF RGeq(bestMatch.score, TypoThreshold)
                    THEN allResumeTerms[MinOfSet(Best(autocorrectSkill(Target), allResumeTerms))]
                    ELSE Null
             /\ bestMatch.corrected = (autocorrectSkill(Target) # Target)

\* A misspelled term is corrected and found behind a candidate that scores lower.
C23_Witness ==
    /\ LookedUp
    /\ Target = "kuberntes"
    /\ allResumeTerms = <<"java", "kubernetes">>
    /\ bestMatch = [match |-> "kubernetes", score |-> RInt(1), corrected |-> TRUE]

\* The best score is below the threshold: a score and no match.
C23_BelowThreshold ==
    /\ LookedUp
    /\ Len(allResumeTerms) = 2
    /\ bestMatch.match = Null
    /\ RGt(bestMatch.score, RInt(0))
    /\ ~bestMatch.corrected

\* The iteration has pushed its record.
Pushed == pc = "find" /\ termIdx = 2

\* The list the term of the iteration was pushed to.
ClassifiedAs ==
    IF Len(matchResults.matches.strongMatch) = 1 THEN "strong"
    ELSE IF Len(matchResults.matches.partialMatch) = 1 THEN "partial"
    ELSE "missing"

\* The resume terms hold a dictionary misspelling of the term looked up.
HasTypoOfTarget == \E i \in 1..Len(allResumeTerms) : allResumeTerms[i] \in TyposOf(Target)

\* C24: for every entry typo -> canonical of commonTechTypos with typo # canonical, a
\* job-description term equal to the canonical form, matched against resume terms
\* that contain the typo, is classified strong or partial, never missing.
C24_ResumeTypoTolerated ==
    Pushed /\ jdAnalysis.weightedTerms[1].term \in Misspelled
           /\ (\E i \in 1..Len(allResumeTerms) :
                  allResumeTerms[i] \in TyposOf(jdAnalysis.weightedTerms[1].term))
        => ClassifiedAs \in {"strong", "partial"}

\* "python" against the resume term "pyhton": two edits in six characters score
\* 0.667 with typo tolerance, under its threshold, and the plain lookup scores 0.4.
C24_PythonMissing ==
    /\ Pushed
    /\ jdAnalysis.weightedTerms[1].term = "python"
    /\ allResumeTerms = <<"pyhton">>
    /\ SameNumber(bestMatch.score, Rat(2, 3))
    /\ bestMatch.match = Null
    /\ SameNumber(finalMatch.score, Rat(2, 5))
    /\ ClassifiedAs = "missing"

\* A misspelling one edit away from its skill is tolerated.
C24_OneEditFound ==
    /\ Pushed
    /\ jdAnalysis.weightedTerms[1].term = "kubernetes"
    /\ allResumeTerms = <<"kuberntes">>
    /\ ClassifiedAs = "strong"

\* The misspellings that are not tolerated on their own.
NotTolerated ==
    {<<"python", "pyhton">>, <<"python", "pytohn">>, <<"docker", "dokcer">>}

\* What the code does: every misspelling of the dictionary but these (two letters
\* swapped in a word of six) is tolerated on the resume side.
C24_AsCoded ==
    Pushed /\ jdAnalysis.weightedTerms[1].term \in Misspelled
           /\ (\E i \in 1..Len(allResumeTerms) :
                  /\ allResumeTerms[i] \in TyposOf(jdAnalysis.weightedTerms[1].term)
                  /\ <<jdAnalysis.weightedTerms[1].term, allResumeTerms[i]>> \notin NotTolerated)
        => ClassifiedAs \in {"strong", "partial"}

\* C26: the fallback from typo-tolerant to plain matching never demotes a term: a
\* term whose typo-tolerant best score is at least 0.65 is classified strong, one
\* whose typo-tolerant best score is at least 0.45 is never classified missing; the
\* score used for the classification is never lower than the typo-tolerant one.
C26_FallbackNeverDemotes ==
    Pushed =>
        /\ RGeq(bestMatch.score, StrongThreshold) => ClassifiedAs = "strong"
        /\ RGeq(bestMatch.score, PartialThreshold) => ClassifiedAs # "missing"
        /\ RGeq(finalMatch.score, bestMatch.score)

\* A typo-tolerant score of 0.667, at least 0.65, and the term is missing.
C26_Demoted ==
    /\ Pushed
    /\ RGeq(bestMatch.score, StrongThreshold)
    /\ RLt(bestMatch.score, TypoThreshold)
    /\ RLt(finalMatch.score, PartialThreshold)
    /\ ClassifiedAs = "missing"

\* What the code does: a typo-tolerant score of at least 0.70 is the score the term
\* is classified by; below it the plain score decides, whichever is higher.
C26_AsCoded ==
    Pushed =>
        /\ RGeq(bestMatch.score, TypoThreshold)
              => finalMatch.score = bestMatch.score /\ ClassifiedAs = "strong"
        /\ RLt(bestMatch.score, TypoThreshold) /\ allResumeTerms # <<>>
              => finalMatch = findBestMatch(jdAnalysis.weightedTerms[1].term, allResumeTerms)

\* The plain score is the higher one: the synonym table makes the two terms equal.
C26_Promoted ==
    /\ Pushed
    /\ RLt(bestMatch.score, TypoThreshold)
    /\ RGt(finalMatch.score, bestMatch.score)
    /\ ClassifiedAs = "strong"

\* The terms extracted from both texts.
ExtractedFromBoth == SeqToSet(jdExtracted) \cap SeqToSet(resumeExtracted)

\* C25: a skill extracted from both the job description and the resume is classified
\* strong, never missing, also when the synonym table maps it to a form of two
\* characters or fewer or the typo dictionary rewrites it: normalizing the resume
\* terms and keeping those longer than two characters never removes the counterpart
\* of a weighted term.
C25_SameSkillStrong ==
    Matched =>
        \A k \in 1..Len(jdAnalysis.weightedTerms) :
            jdAnalysis.weightedTerms[k].originalTerm \in ExtractedFromBoth
                => /\ ListOf(jdAnalysis.weightedTerms[k].term) = "strong"
                   /\ normalizeSkill(jdAnalysis.weightedTerms[k].originalTerm)
                          \in SeqToSet(allResumeTerms)

\* "machine learning" in both texts: the weighted term is "ml", the resume term "ml"
\* is filtered out, and the skill is reported missing.
C25_ShortFormMissing ==
    /\ pc = "done"
    /\ jdExtracted = <<"machine learning">>
    /\ resumeExtracted = <<"machine learning">>
    /\ jdAnalysis.weightedTerms[1].term = "ml"
    /\ allResumeTerms = <<>>
    /\ result.missingSkills[1].skill = "ml"
    /\ result.strongMatches = <<>>

\* What the code does: the skill is strong when its normalized form is longer than
\* two characters.
C25_AsCoded ==
    Matched =>
        \A k \in 1..Len(jdAnalysis.weightedTerms) :
            /\ jdAnalysis.weightedTerms[k].originalTerm \in ExtractedFromBoth
            /\ Len(jdAnalysis.weightedTerms[k].term) > 2
            => ListOf(jdAnalysis.weightedTerms[k].term) = "strong"

\* A skill the typo dictionary rewrites, in both texts, is found.
C25_RewrittenFound ==
    /\ pc = "done"
    /\ jdExtracted = <<"node.js">>
    /\ autocorrectSkill("node.js") = "node"
    /\ result.strongMatches[1].skill = "node.js"
    /\ result.strongMatches[1].matchedAs = "node.js"

\* The score has been computed from matchResults.
Scored == pc = "checklist"

\* The positions of the missing records that differ from all records before them.
DistinctMissing ==
    {i \in 1..Len(matchResults.matches.missing) :
        \A j \in 1..(i - 1) : matchResults.matches.missing[j] # matchResults.matches.missing[i]}

\* The list without its i-th record.
Without(list, i) == SubSeq(list, 1, i - 1) \o SubSeq(list, i + 1, Len(list))

\* matchResults with the i-th missing term found as a strong match instead.
AsStrong(i, demonstrated) ==
    [matchResults EXCEPT
        !.matches.missing = Without(@, i),
        !.matches.strongMatch =
            Append(@, [jdTerm |-> matchResults.matches.missing[i].term,
                       resumeTerm |-> matchResults.matches.missing[i].term,
                       score |-> RInt(1),
                       weight |-> matchResults.matches.missing[i].weight,
                       isRequired |-> matchResults.matches.missing[i].isRequired,
                       inSkillsSection |-> FALSE,
                       inExperience |-> demonstrated,
                       typoCorrection |-> FALSE])]

\* matchResults with the i-th missing term found as a partial match instead.
AsPartial(i) ==
    [matchResults EXCEPT
        !.matches.missing = Without(@, i),
        !.matches.partialMatch =
            Append(@, [jdTerm |-> matchResults.matches.missing[i].term,
                       resumeTerm |-> matchResults.matches.missing[i].term,
                       score |-> Rat(1, 2),
                       weight |-> matchResults.matches.missing[i].weight,
                       isRequired |-> matchResults.matches.missing[i].isRequired,
                       typoCorrection |-> FALSE])]

\* C27: atsScore is monotone in match quality: with the sections, the metrics flag
\* and all other records unchanged, a term reclassified from missing to strong
\* (demonstrated in the experience or not) or from missing to partial never lowers
\* atsScore.
C27_Monotone ==
    Scored =>
        \A i \in DistinctMissing :
            /\ calculateATSScore(AsPartial(i)).atsScore >= scoreSteps.atsScore
            /\ \A demonstrated \in BOOLEAN :
                  calculateATSScore(AsStrong(i, demonstrated)).atsScore >= scoreSteps.atsScore

\* One strong match, demonstrated, among many missing terms: a second strong match
\* that is not demonstrated halves the demonstration score, the skill match stays at
\* its floor of 0.3, and the score drops.
C27_Lowered ==
    /\ Scored
    /\ Len(matchResults.matches.strongMatch) = 1
    /\ matchResults.matches.strongMatch[1].inExperience
    /\ Len(matchResults.matches.missing) = SaturatingCount
    /\ calculateSkillMatchScore(AsStrong(1, FALSE)) = calculateSkillMatchScore(matchResults)
    /\ calculateATSScore(AsStrong(1, FALSE)).atsScore < scoreSteps.atsScore

\* What the code does: the score does not drop when the term becomes a partial match
\* or a strong match that is demonstrated in the experience.
C27_AsCoded ==
    Scored =>
        \A i \in DistinctMissing :
            /\ calculateATSScore(AsPartial(i)).atsScore >= scoreSteps.atsScore
            /\ calculateATSScore(AsStrong(i, TRUE)).atsScore >= scoreSteps.atsScore

\* C28: the floor of 20 points never changes the result: skillMatch is at least 0.3
\* (0.50 when there are no terms) and requiredMatch at least 0.25, so the value the
\* floor is applied to (weighted sum * 100 * 1.4) is at least 29.4 for every input,
\* and atsScore is at least 29, also when no term was extracted from the job
\* description.
C28_FloorNeverApplies ==
    Scored =>
        /\ RGeq(scoreSteps.skillMatch, Rat(3, 10))
        /\ Classified = 0 => SameNumber(scoreSteps.skillMatch, Rat(1, 2))
        /\ RGeq(scoreSteps.requiredMatch, Rat(1, 4))
        /\ RGeq(scoreSteps.adjusted, Rat(294, 10))
        /\ scoreSteps.floored = scoreSteps.adjusted
        /\ ~RLt(scoreSteps.floored, Rat(294, 10))
        /\ scoreSteps.atsScore >= 29

\* The lowest value: every term missing and required, no section that scores, no
\* metrics; exactly 29.4 before the floor, 29 in the end.
C28_Witness ==
    /\ Scored
    /\ Classified >= 1
    /\ Len(matchResults.matches.missing) = Classified
    /\ SameNumber(scoreSteps.adjusted, Rat(294, 10))
    /\ SameNumber(scoreSteps.floored, Rat(294, 10))
    /\ scoreSteps.atsScore = 29

\* No term at all.
C28_NoTerms ==
    /\ Scored
    /\ Classified = 0
    /\ SameNumber(scoreSteps.skillMatch, Rat(1, 2))
    /\ SameNumber(scoreSteps.requiredMatch, RInt(1))
    /\ scoreSteps.atsScore >= 29

\* parseExperienceSection is being followed; it has returned.
ParsingExperience == frame.fn = "parseExperienceSection"
JobsReturned == ParsingExperience /\ frame.pc = "done"

\* The non-empty lines of the experience content, trimmed, in input order.
RECURSIVE trimmedNonEmpty(_)
trimmedNonEmpty(lines) ==
    IF lines = <<>> THEN <<>>
    ELSE IF trim(Head(lines)) = "" THEN trimmedNonEmpty(Tail(lines))
    ELSE <<trim(Head(lines))>> \o trimmedNonEmpty(Tail(lines))

ExperienceLinesRead == trimmedNonEmpty(split(frame.text, {"\n"}))

\* A job-title line: a 4-digit year, a job-role keyword, or one of | and the two dashes.
JobRoleKeywords ==
    {"engineer", "developer", "manager", "analyst", "designer", "consultant",
     "specialist", "lead", "senior", "junior"}

LooksLikeTitle(line) ==
    \/ \E i \in 1..Len(line) : \A k \in 0..3 : CharAt(line, i + k) \in Digits
    \/ \E word \in JobRoleKeywords : includes(toLowerCase(line), word)
    \/ \E c \in {"|", EnDash, EmDash} : includes(line, c)

\* The length of the marker a line starts with: a bullet glyph or a numbered-list
\* marker (digits and then . or )), 0 if it starts with neither.
MarkerLength(line) ==
    LET digits == leadingRun(line, Digits)
    IN  IF line # "" /\ CharAt(line, 1) \in {BulletGlyph, "-", "*", "+"} THEN 1
        ELSE IF digits > 0 /\ CharAt(line, digits + 1) \in {".", ")"} THEN digits + 1
        ELSE 0

LooksLikeBullet(line) == MarkerLength(trimStart(line)) > 0

\* A line without its leading markers (and the spaces around them).
RECURSIVE withoutMarkers(_)
withoutMarkers(line) ==
    LET rest == trimStart(line)
    IN  IF MarkerLength(rest) = 0 THEN trim(rest)
        ELSE withoutMarkers(Sub(rest, MarkerLength(rest) + 1, Len(rest)))

\* The positions of the title lines among the first n lines; the k-th of them; the
\* position where the entry of the k-th title ends.
TitlePositions(content, n) == {i \in 1..n : LooksLikeTitle(content[i])}

NthPosition(positions, k) ==
    CHOOSE p \in positions : Cardinality({q \in positions : q < p}) = k - 1

EntryEnd(content, n, k) ==
    IF k < Cardinality(TitlePositions(content, n))
    THEN NthPosition(TitlePositions(content, n), k + 1) - 1
    ELSE n

\* The bullet lines of the k-th entry, as they are in the input, in input order.
RECURSIVE bulletLines(_, _, _)
bulletLines(content, from, to) ==
    IF from > to THEN <<>>
    ELSE IF LooksLikeBullet(content[from])
    THEN <<content[from]>> \o bulletLines(content, from + 1, to)
    ELSE bulletLines(content, from + 1, to)

EntryBulletLines(content, n, k) ==
    bulletLines(content, NthPosition(TitlePositions(content, n), k) + 1,
                EntryEnd(content, n, k))

\* The entries of the first n lines: one per title line, in input order, each with
\* the bullets between its title line and the next one, without their markers.
EntriesAsClaimed(content, n) ==
    [k \in 1..Cardinality(TitlePositions(content, n)) |->
        [title |-> content[NthPosition(TitlePositions(content, n), k)],
         bullets |-> [b \in 1..Len(EntryBulletLines(content, n, k)) |->
                        withoutMarkers(EntryBulletLines(content, n, k)[b])]]]

\* The same entries, with what cleanBullet leaves of each bullet: the line without its
\* leading run of spaces, bullet glyphs, digits, dots and closing parentheses.
EntriesAsCoded(content, n) ==
    [k \in 1..Cardinality(TitlePositions(content, n)) |->
        [title |-> content[NthPosition(TitlePositions(content, n), k)],
         bullets |-> [b \in 1..Len(EntryBulletLines(content, n, k)) |->
                        cleanBullet(EntryBulletLines(content, n, k)[b])]]]

\* The entries closed so far and the open one.
EntriesSoFar == IF frame.pc = "done" THEN frame.jobs ELSE frame.jobs \o frame.currentJob

LinesDone ==
    IF frame.pc = "done" THEN Len(ExperienceLinesRead)
    ELSE IF frame.pc = "forEach" THEN frame.index - 1 ELSE 0

C29_NumberLost ==
    /\ JobsReturned
    /\ \E k \in 1..Len(frame.jobs) : \E b \in 1..Len(frame.jobs[k].bullets) :
          /\ frame.jobs[k].bullets[b] = "services built"
          /\ EntriesAsClaimed(ExperienceLinesRead, LinesDone)[k].bullets[b] = "3 services built"

\* What the code does: the claim with cleanBullet's stripping, which also removes
\* digits, dots and closing parentheses the text of the bullet starts with; the
\* result is the one the analysis uses.
C29_AsCoded ==
    ParsingExperience =>
        /\ frame.pc = "forEach" => frame.lines = SelectSeq(split(frame.text, {"\n"}), NonBlank)
        /\ Len(frame.currentJob) <= 1
        /\ EntriesSoFar = EntriesAsCoded(ExperienceLinesRead, LinesDone)
        /\ frame.pc = "done" => frame.jobs = parseExperienceSection(frame.text)

\* Two entries, each with a bullet, after a bullet and a plain line that were dropped.
C29_TwoEntries ==
    /\ JobsReturned
    /\ Len(frame.jobs) = 2
    /\ \A k \in 1..2 : Len(frame.jobs[k].bullets) = 1
    /\ Len(ExperienceLinesRead) = 4

\* A handler is being followed; it has returned.
Handling == frame.fn \in {"analyzeResume", "testAnalyze"}
Handled == Handling /\ frame.pc = "returned"

\* The one response of a handler that has returned.
Response == frame.responses[1]

ResumeMissing == resumeOf(frame.fn, frame.req) \in {Undefined, ""}
JobDescriptionMissing == frame.req.body.jobDescription \in {Undefined, ""}

\* Whether the services the handler has called so far have thrown.
ParsingThrew == "parseResume" \in SeqToSet(frame.calls) /\ frame.parsing.threw
AnalysisThrew == "performATSAnalysis" \in SeqToSet(frame.calls) /\ frame.analysis.threw

\* The calls a handler makes when the request is complete and nothing throws.
CallsOf(fn) ==
    IF fn = "analyzeResume" THEN <<"parseResume", "performATSAnalysis">>
    ELSE <<"performATSAnalysis">>

\* At most one response is sent, and none before the handler returns by
\* sending it; the response is 400 with success:false when the resume is missing,
\* else 400 when the job description is missing, in both cases with no call of
\* parseResume or performATSAnalysis; 200 with success:true and the analysis when the
\* analysis completes; 500 with success:false and the error's message when parsing
\* or analysis throws.
C30_Responses ==
    Handling =>
        /\ Len(frame.responses) = (IF frame.pc = "returned" THEN 1 ELSE 0)
        /\ (ResumeMissing \/ JobDescriptionMissing) => frame.calls = <<>>
        /\ Handled /\ ResumeMissing =>
              /\ Response.status = 400
              /\ Response.body.success = FALSE
              /\ Response.body.message \in
                    {"Resume file is required", "Resume text is required"}
        /\ Handled /\ ~ResumeMissing /\ JobDescriptionMissing =>
              /\ Response.status = 400
              /\ Response.body = [success |-> FALSE,
                                  message |-> "Job description is required"]
        /\ Handled /\ ~ResumeMissing /\ ~JobDescriptionMissing =>
              IF ParsingThrew
              THEN /\ Response = [status |-> 500,
                                  body |-> [success |-> FALSE,
                                            message |-> frame.parsing.value]]
                   /\ frame.calls = <<"parseResume">>
              ELSE IF AnalysisThrew
              THEN /\ Response = [status |-> 500,
                                  body |-> [success |-> FALSE,
                                            message |-> frame.analysis.value]]
                   /\ frame.calls = CallsOf(frame.fn)
              ELSE /\ Response = [status |-> 200,
                                  body |-> [success |-> TRUE,
                                            analysis |-> frame.analysis.value]]
                   /\ frame.calls = CallsOf(frame.fn)

\* Every request is answered, so no exception leaves the handler.
C30_Answered == Handling ~> Handled

\* A request without a job description has been rejected, one the analysis of which
\* threw has been answered with 500, and one has been answered with its analysis.
C30_Witness ==
    /\ Handled
    /\ frame.fn = "analyzeResume"
    /\ ~ResumeMissing
    /\ JobDescriptionMissing
    /\ Response.status = 400
    /\ frame.calls = <<>>

C30_AnalysisThrew ==
    /\ Handled
    /\ AnalysisThrew
    /\ Response.status = 500
    /\ Response.body.message = "Cannot read properties of null"

C30_ParsingThrew ==
    /\ Handled
    /\ ParsingThrew
    /\ Response.status = 500
    /\ frame.calls = <<"parseResume">>

C30_Succeeded ==
    /\ Handled
    /\ frame.fn = "testAnalyze"
    /\ Response.status = 200
    /\ Response.body.success

\* C30: for every request handled by analyzeResume or testAnalyze exactly one response
\* is sent: the responses are the ones above at every point of the handler, and every
\* request is answered.
C30_ExactlyOneResponse == []C30_Responses /\ C30_Answered
====
